---- MODULE Spec2Model ----
(***************************************************************************)
(* Verification model of three parts of RustDDS:                           *)
(*   - the builtin authentication plugin (PKI-DH handshake),               *)
(*     src/security/authentication/authentication_builtin/authentication.rs*)
(*   - the GUID derivation from the identity certificate (same file),      *)
(*   - the status event channel, src/dds/statusevents.rs.                  *)
(* Each part has its own specification (Spec, SpecGuid, SpecChan); the     *)
(* variables of the other parts stay at their initial values.              *)
(***************************************************************************)
EXTENDS Integers, Sequences, FiniteSets, TLC

VARIABLES
  \* ---- AuthenticationBuiltin, one instance per participant ----
  local_participant_info,            \* Option<LocalParticipantInfo>
  remote_participant_infos,          \* HashMap<IdentityHandle, RemoteParticipantInfo>
  handshake_to_identity_handle_map,  \* HashMap<HandshakeHandle, IdentityHandle>
  next_identity_handle,
  next_handshake_handle,
  net,                               \* handshake tokens in flight (never consumed: replay is possible)
  tampered,                          \* number of tokens the network has modified
  ret,                               \* the last call and what it returned
  \* ---- GUID derivation, as a pure function of drawn inputs ----
  g_cert, g_candidate, g_candidate_hash, g_adjusted, g_remote, g_check,
  \* ---- status channel ----
  ch_capacity,     \* the capacity sync_status_channel was given
  ch_queue,        \* the items in the bounded channel, oldest first
  ch_signal,       \* the poll channel holds a signal: the event source is readable
  ch_waker,        \* Arc<Mutex<Option<Waker>>>
  ch_woken,        \* the wakers wake_by_ref has been called on
  ch_senders,      \* live StatusChannelSender clones
  ch_receiver,     \* the StatusChannelReceiver is alive
  ch_stream,       \* a StatusReceiverStream borrows the receiver
  ch_terminated,   \* StatusReceiverStream.terminated
  ch_sent,         \* number of try_send calls made: the items are numbered by it
  ch_pc,           \* position inside try_recv
  ch_ret,          \* the last call on the channel and what it returned
  ch_received,     \* history: the items the receives returned, in the order of the calls
  ch_full,         \* history: the items passed to try_send while the channel was full
  ch_at_drop,      \* history: the items queued when a StatusReceiverStream was last dropped
  \* ---- configuration URIs, as pure functions of drawn inputs ----
  u_uri,           \* the uri argument, as the pieces of its text
  u_file_ok,       \* std::fs::read of the path succeeds
  u_key_ok,        \* the private key behind the uri can be loaded
  u_ret,           \* the last call and what it returned
  \* ---- GAP submessage serialization, as a pure function of drawn inputs ----
  gp_gap,          \* the Gap value
  gp_endian,       \* the endianness of the speedy context
  gp_bytes,        \* Option: what write_to_vec gave for gp_gap
  gp_decoded,      \* Option: what read_from_buffer gave for gp_bytes
  gp_reencoded,    \* Option: what write_to_vec gave for gp_decoded
  \* ---- no_key DataReader ----
  dr_cache,        \* the samples the keyed DataReader holds, oldest first
  dr_received,     \* number of samples received: the samples are numbered by it
  dr_iter,         \* Option: the items left in the iterator into_iterator returned
  dr_provided,     \* history: the samples the iterators were made of
  dr_ret,          \* the last call on the DataReader and what it returned
  \* ---- the waker mutex of the status channel, step by step ----
  wk_lock,         \* who holds the Mutex<Option<Waker>>: "" when it is free
  wk_poll,         \* where the poll_next in progress is, and its locals
  wk_send,         \* where the try_send in progress is, and its locals
  wk_unwoken       \* history, Option: the waker the last poll_next stored when it
                   \* returned Pending, until wake_by_ref is called on it

hsVars == <<local_participant_info, remote_participant_infos,
            handshake_to_identity_handle_map, next_identity_handle,
            next_handshake_handle, net, tampered, ret>>
guidVars == <<g_cert, g_candidate, g_candidate_hash, g_adjusted, g_remote, g_check>>
chanVars == <<ch_capacity, ch_queue, ch_signal, ch_waker, ch_woken, ch_senders, ch_receiver,
              ch_terminated, ch_sent, ch_pc, ch_ret, ch_received, ch_full,
              ch_stream, ch_at_drop>>
uriVars == <<u_uri, u_file_ok, u_key_ok, u_ret>>
gapVars == <<gp_gap, gp_endian, gp_bytes, gp_decoded, gp_reencoded>>
drVars == <<dr_cache, dr_received, dr_iter, dr_provided, dr_ret>>
wakeVars == <<wk_lock, wk_poll, wk_send, wk_unwoken>>
pureVars == <<uriVars, gapVars, drVars, wakeVars>>
vars == <<hsVars, guidVars, chanVars, pureVars>>

\* Option<T>: None is the empty sequence, Some(x) the one-element sequence.
None == <<>>
Some(x) == <<x>>
IsSome(o) == o # <<>>
Unwrap(o) == o[1]

(***************************************************************************)
(* Bytes and bits.  A u64 does not fit TLC's integers, so it is a sequence *)
(* of 64 bits, most significant first.                                     *)
(***************************************************************************)
\* the 8 bits of a byte
ByteBits(b) == [i \in 1..8 |-> (b \div (2 ^ (8 - i))) % 2]

\* the byte of 8 bits
BitsValue(bits) ==
  128 * bits[1] + 64 * bits[2] + 32 * bits[3] + 16 * bits[4]
    + 8 * bits[5] + 4 * bits[6] + 2 * bits[7] + bits[8]

\* the bits of a byte string
BytesToBits(bytes) ==
  [i \in 1..(8 * Len(bytes)) |-> ByteBits(bytes[((i - 1) \div 8) + 1])[((i - 1) % 8) + 1]]

\* u64::from_be_bytes: the first byte is the most significant
u64_from_be_bytes(bytes) == BytesToBits(bytes)

\* u64::to_be_bytes
u64_to_be_bytes(bits) ==
  [i \in 1..8 |-> BitsValue(SubSeq(bits, 8 * (i - 1) + 1, 8 * i))]

\* u64 >> 1 (logical shift: a zero enters at the top, the lowest bit is lost)
u64_shr1(bits) == <<0>> \o SubSeq(bits, 1, Len(bits) - 1)

\* u64 | u64
u64_or(a, b) == [i \in 1..Len(a) |-> IF a[i] = 1 \/ b[i] = 1 THEN 1 ELSE 0]

\* 0x8000_0000_0000_0000u64
GuidStartMask == [i \in 1..64 |-> IF i = 1 THEN 1 ELSE 0]

(***************************************************************************)
(* Certificates.  subject_name_der_hash stands for the first 8 bytes of    *)
(* SHA-256(subject name DER); issuer names the CA whose key signed the     *)
(* certificate; key names the key pair the certificate binds.              *)
(***************************************************************************)
Certificate(hash8, issuer, key, pem_ok) ==
  [subject_name_der_hash |-> hash8, issuer |-> issuer, key |-> key, pem_ok |-> pem_ok]

\* the only element of a one-element set
Only(S) == CHOOSE v \in S: TRUE

\* fn guid_start_from_certificate.  Each intermediate u64 is bound to its
\* value once, as the element of a one-element set.
guid_start_from_certificate_flip(identity_cert) ==
  Only({SubSeq(u64_to_be_bytes(shifted), 1, 6) :
          shifted \in {u64_shr1(be) :
            be \in {u64_from_be_bytes(identity_cert.subject_name_der_hash)}}})

guid_start_from_certificate(identity_cert) ==
  Only({SubSeq(u64_to_be_bytes(forced), 1, 6) :
          forced \in {u64_or(shifted, GuidStartMask) :
            shifted \in {u64_shr1(be) :
              be \in {u64_from_be_bytes(identity_cert.subject_name_der_hash)}}}})

\* fn validate_remote_guid: Ok(()) is TRUE, Err is FALSE
validate_remote_guid_short(remote_guid, remote_identity_cert) ==
  SubSeq(remote_guid.prefix, 1, 5) = SubSeq(guid_start_from_certificate(remote_identity_cert), 1, 5)

validate_remote_guid(remote_guid, remote_identity_cert) ==
  LET actual_guid_start == SubSeq(remote_guid.prefix, 1, 6)
      expected_guid_start == guid_start_from_certificate(remote_identity_cert)
  IN  actual_guid_start = expected_guid_start

\* validate_local_identity, the adjusted GUID: candidate_guid_hash stands for
\* the first 6 bytes of SHA-256(candidate GUID bytes)
adjusted_guid(identity_certificate, candidate_participant_guid, candidate_guid_hash) ==
  LET guid_start == guid_start_from_certificate(identity_certificate)
      prefix_bytes == guid_start \o SubSeq(candidate_guid_hash, 1, 6)
  IN  [prefix |-> prefix_bytes, entity_id |-> candidate_participant_guid.entity_id]

(***************************************************************************)
(* The world of the handshake model: two participants, two identity CAs.   *)
(***************************************************************************)
Participants == {"A", "B"}
Other(p) == IF p = "A" THEN "B" ELSE "A"

\* bounds of the model: the identity handles and the handshake handles one
\* participant allocates, and the tokens the network modifies
MaxIdentityHandle == 2
MaxHandshakeHandle == 1
MaxTamper == 1

\* A CA certificate is self-signed.
CACert(name) == Certificate(<<0, 0, 0, 0, 0, 0, 0, 0>>, name, name, TRUE)
IdentityCAs == {CACert("kCA1"), CACert("kCA2")}

\* The identity certificates a participant can be configured with.  They
\* agree in the first byte of the subject hash, so that the order of the GUID
\* prefixes is decided by a later byte: B's first certificate gives a prefix
\* greater than A's, its second a smaller one, its third is of another CA.
IdentityCerts(p) ==
  IF p = "A"
  THEN {Certificate(<<64, 1, 0, 0, 0, 0, 0, 0>>, "kCA1", "kA", TRUE)}
  ELSE {Certificate(<<64, 2, 0, 0, 0, 0, 0, 0>>, "kCA1", "kB", TRUE),
        Certificate(<<64, 0, 255, 0, 0, 0, 0, 0>>, "kCA1", "kB", TRUE),
        Certificate(<<64, 1, 1, 0, 0, 0, 0, 0>>, "kCA2", "kB", TRUE)}

\* candidate GUID of a participant and the first bytes of its SHA-256
CandidateGuid(p) ==
  [prefix |-> [i \in 1..12 |-> IF p = "A" THEN 1 ELSE 2], entity_id |-> "PARTICIPANT"]
CandidateGuidHash(p) ==
  [i \in 1..6 |-> IF p = "A" THEN 10 + i ELSE 20 + i]

\* a GUID prefix no participant owns
SpoofPrefix == [i \in 1..12 |-> 255]

(***************************************************************************)
(* Stand-ins for the cryptographic library.                                *)
(***************************************************************************)
\* Certificate::from_pem
from_pem(pem) == pem.pem_ok

\* Certificate::verify_signed_by_certificate
verify_signed_by_certificate(cert, ca) == cert.issuer = ca.key

\* PrivateKey::sign
sign(key, data) == [signer |-> key, data |-> data]

\* Certificate::signature_algorithm_identifier
signature_algorithm_identifier(cert) == "ECDSA-SHA256"

\* parse_signature_algo_name_to_ring: Ok is TRUE
parse_signature_algo_name_to_ring(name) ==
  name \in {"ECDSA-SHA256", "RSASSA-PSS-SHA256"}

\* Certificate::verify_signed_data_with_algorithm
verify_signed_data_with_algorithm(cert, data, signature, algo) ==
  /\ signature.signer = cert.key
  /\ signature.data = data
  /\ algo = signature_algorithm_identifier(cert)

\* Sha256::hash of the serialized property list C = (c.id, c.perm, c.pdata,
\* c.dsign_algo, c.kagree_algo): a collision-free hash
hash_c(c_id, c_perm, c_pdata, c_dsign_algo, c_kagree_algo) ==
  [sha256 |-> <<c_id, c_perm, c_pdata, c_dsign_algo, c_kagree_algo>>]

\* generate_random_32_bytes: a 256-bit nonce is fresh, so it is named by the
\* call that drew it (the participant and the number of the draw); no two
\* draws give the same value, and the network's forged nonce differs from all
generate_random_32_bytes(p, n) == <<p, n>>
ForgedChallenge == <<"M", 0>>

\* Key agreement: Diffie-Hellman in a small group per algorithm
ECDH_KAGREE_ALGO_NAME == "ECDH+prime256v1-CEUM"
DH_MODP_KAGREE_ALGO_NAME == "DH+MODP-2048-256"
DHPrivateKeys == {2, 3}

DHGroup(algo) ==
  IF algo = ECDH_KAGREE_ALGO_NAME THEN [p |-> 11, g |-> 2] ELSE [p |-> 23, g |-> 5]

RECURSIVE ModExp(_, _, _)
ModExp(b, e, m) == IF e = 0 THEN 1 ELSE (b * ModExp(b, e - 1, m)) % m

\* DHKeys::new_ec_keys / new_modp_keys with the drawn private key
DHKeys(algo, priv) == [algo |-> algo, priv |-> priv]

\* DHKeys::kagree_algo_name_str
kagree_algo_name_str(keys) == keys.algo

\* DHKeys::public_key_bytes
public_key_bytes(keys) ==
  [algo |-> keys.algo, y |-> ModExp(DHGroup(keys.algo).g, keys.priv, DHGroup(keys.algo).p)]

\* DHKeys::compute_shared_secret: None when the peer's key is of another kind
compute_shared_secret(keys, remote_public) ==
  IF remote_public.algo # keys.algo THEN None
  ELSE Some(ModExp(remote_public.y, keys.priv, DHGroup(keys.algo).p))

\* SpdpDiscoveredParticipantData, serialized: only the participant GUID matters
PData(guid) == [ok |-> TRUE, participant_guid |-> guid]
GarbagePData == [ok |-> FALSE, participant_guid |-> [prefix |-> SpoofPrefix, entity_id |-> "PARTICIPANT"]]

\* SpdpDiscoveredParticipantData::from_pl_cdr_bytes: Ok is TRUE
from_pl_cdr_bytes(pdata) == pdata.ok

(***************************************************************************)
(* Handshake tokens and handshake states.                                  *)
(***************************************************************************)
IDENTITY_TOKEN_CLASS_ID == "DDS:Auth:PKI-DH:1.0"
HANDSHAKE_REQUEST_CLASS_ID == "DDS:Auth:PKI-DH:1.0+Req"
HANDSHAKE_REPLY_CLASS_ID == "DDS:Auth:PKI-DH:1.0+Reply"
HANDSHAKE_FINAL_CLASS_ID == "DDS:Auth:PKI-DH:1.0+Final"

\* BuiltinHandshakeMessageToken.  session is a history field: the initiator
\* and the handshake handle of the begin_handshake_request that started the
\* run the token belongs to.  No operation reads it.
NoToken ==
  [class_id |-> "", c_id |-> None, c_perm |-> None, c_pdata |-> None,
   c_dsign_algo |-> None, c_kagree_algo |-> None, ocsp_status |-> None,
   hash_c1 |-> None, dh1 |-> None, hash_c2 |-> None, dh2 |-> None,
   challenge1 |-> None, challenge2 |-> None, signature |-> None,
   session |-> <<"", 0>>]

\* BuiltinHandshakeMessageToken::extract_request: Ok is TRUE
extract_request(t) ==
  /\ t.class_id = HANDSHAKE_REQUEST_CLASS_ID
  /\ \A f \in {"c_id", "c_perm", "c_pdata", "c_dsign_algo", "c_kagree_algo",
               "dh1", "challenge1"} : IsSome(t[f])

\* BuiltinHandshakeMessageToken::extract_reply
extract_reply(t) ==
  /\ t.class_id = HANDSHAKE_REPLY_CLASS_ID
  /\ \A f \in {"c_id", "c_perm", "c_pdata", "c_dsign_algo", "c_kagree_algo",
               "dh1", "dh2", "challenge1", "challenge2", "signature"} : IsSome(t[f])

\* BuiltinHandshakeMessageToken::extract_final
extract_final(t) ==
  /\ t.class_id = HANDSHAKE_FINAL_CLASS_ID
  /\ \A f \in {"dh1", "dh2", "challenge1", "challenge2", "signature"} : IsSome(t[f])

\* BuiltinHandshakeState
PendingRequestSend == [tag |-> "PendingRequestSend"]
PendingRequestMessage == [tag |-> "PendingRequestMessage"]
PendingReplyMessage(dh1, challenge1, hash_c1, session) ==
  [tag |-> "PendingReplyMessage", dh1 |-> dh1, challenge1 |-> challenge1,
   hash_c1 |-> hash_c1, session |-> session]
PendingFinalMessage(hash_c1, hash_c2, dh1_public, challenge1, dh2, challenge2, remote_id_certificate, session) ==
  [tag |-> "PendingFinalMessage", hash_c1 |-> hash_c1, hash_c2 |-> hash_c2,
   dh1_public |-> dh1_public, challenge1 |-> challenge1, dh2 |-> dh2,
   challenge2 |-> challenge2, remote_id_certificate |-> remote_id_certificate,
   session |-> session]
CompletedWithFinalMessageSent_swapped(challenge1, challenge2, shared_secret, session) ==
  [tag |-> "CompletedWithFinalMessageSent", challenge1 |-> challenge2,
   challenge2 |-> challenge1, shared_secret |-> shared_secret, session |-> session]
CompletedWithFinalMessageSent(challenge1, challenge2, shared_secret, session) ==
  [tag |-> "CompletedWithFinalMessageSent", challenge1 |-> challenge1,
   challenge2 |-> challenge2, shared_secret |-> shared_secret, session |-> session]
CompletedWithFinalMessageReceived(challenge1, challenge2, shared_secret, session) ==
  [tag |-> "CompletedWithFinalMessageReceived", challenge1 |-> challenge1,
   challenge2 |-> challenge2, shared_secret |-> shared_secret, session |-> session]
NoState == [tag |-> "-"]

CompletedTags == {"CompletedWithFinalMessageSent", "CompletedWithFinalMessageReceived"}

\* RemoteParticipantInfo.  guidp and validated_as are history fields (the
\* prefix validate_remote_identity was given, the state it chose).
RemoteParticipantInfo(cert_opt, perm_opt, state, guidp, validated_as) ==
  [identity_certificate_opt |-> cert_opt, signed_permissions_xml_opt |-> perm_opt,
   handshake_state |-> state, guidp |-> guidp, validated_as |-> validated_as]

\* what a call returned: Ok(outcome, handles, token), or Err(err); before is
\* the handshake state the call found, msg the handshake message it was
\* given, args the other arguments
Ret(who, op, ok, outcome, err, ih, hh, token, before) ==
  [who |-> who, op |-> op, ok |-> ok, outcome |-> outcome, err |-> err,
   identity_handle |-> ih, handshake_handle |-> hh, token |-> token,
   before |-> before, secret |-> None, msg |-> None, args |-> None]
WithMsg(r, handshake_message_in) == [r EXCEPT !.msg = Some(handshake_message_in)]
\* the call with the handles and identifiers it was given
WithArgs(r, args) == [r EXCEPT !.args = Some(args)]
RetErr(who, op, err, ih, hh, before) ==
  Ret(who, op, FALSE, "", err, ih, hh, None, before)
NoRet == Ret("", "", TRUE, "", "", 0, 0, None, NoState)

\* no call is in progress: the caller has taken the result of the last one
Idle == ret.op = ""

HsInit ==
  /\ local_participant_info = [p \in Participants |-> None]
  /\ remote_participant_infos = [p \in Participants |-> <<>>]
  /\ handshake_to_identity_handle_map = [p \in Participants |-> <<>>]
  /\ next_identity_handle = [p \in Participants |-> 0]
  /\ next_handshake_handle = [p \in Participants |-> 0]
  /\ net = {}
  /\ tampered = 0
  /\ ret = NoRet

IdentityHandles == 1..MaxIdentityHandle
HandshakeHandles == 1..MaxHandshakeHandle

\* Extend a map by one entry (HashMap::insert)
Insert(map, k, v) == [x \in (DOMAIN map) \cup {k} |-> IF x = k THEN v ELSE map[x]]

(***************************************************************************)
(* validate_local_identity.  The participant is constructed once, so the   *)
(* call is made while no local identity exists.  The configured files are  *)
(* readable: the call draws a CA certificate and an identity certificate.  *)
(***************************************************************************)
validate_local_identity(p) ==
  /\ Idle
  /\ local_participant_info[p] = None
  /\ \E identity_ca \in IdentityCAs, identity_certificate \in IdentityCerts(p):
       IF ~verify_signed_by_certificate(identity_certificate, identity_ca)
       THEN /\ ret' = RetErr(p, "validate_local_identity",
                             "My own identity certificate does not verify against identity CA.",
                             0, 0, NoState)
            /\ UNCHANGED <<local_participant_info, remote_participant_infos,
                           next_identity_handle>>
       ELSE LET random_bytes1 == generate_random_32_bytes(p, -1)
                random_bytes2 == generate_random_32_bytes(p, -2)
                random_bytes3 == generate_random_32_bytes(p, -3)
                guid == adjusted_guid(identity_certificate, CandidateGuid(p),
                                      CandidateGuidHash(p))
                local_identity_handle == next_identity_handle[p] + 1
                self_remote_info ==
                  RemoteParticipantInfo(None, None,
                    CompletedWithFinalMessageReceived(random_bytes1, random_bytes2,
                                                      random_bytes3, <<p, 0>>),
                    guid.prefix, NoState)
            IN  /\ local_participant_info' =
                     [local_participant_info EXCEPT ![p] = Some(
                        [identity_handle |-> local_identity_handle,
                         guid |-> guid,
                         identity_certificate |-> identity_certificate,
                         id_cert_private_key |-> identity_certificate.key,
                         identity_ca |-> identity_ca,
                         signed_permissions_document_xml |-> "" ])]
                /\ next_identity_handle' =
                     [next_identity_handle EXCEPT ![p] = local_identity_handle]
                /\ remote_participant_infos' =
                     [remote_participant_infos EXCEPT ![p] =
                        Insert(@, local_identity_handle, self_remote_info)]
                /\ ret' = Ret(p, "validate_local_identity", TRUE, "Ok", "",
                              local_identity_handle, 0, None, NoState)
  /\ UNCHANGED <<handshake_to_identity_handle_map, next_handshake_handle, net, tampered>>
  /\ UNCHANGED <<guidVars, chanVars, pureVars>>

(***************************************************************************)
(* validate_remote_identity                                                *)
(***************************************************************************)
\* GuidPrefix::cmp, the derived Ord of the 12 prefix bytes: the first byte
\* that differs decides
cmp(a, b) ==
  IF a = b THEN "Equal"
  ELSE LET first == CHOOSE i \in 1..Len(a): a[i] # b[i] /\ \A j \in 1..(i - 1): a[j] = b[j]
       IN  IF a[first] < b[first] THEN "Less" ELSE "Greater"

\* the GUID prefixes discovery can hand to validate_remote_identity
GuidPrefixInputs ==
  {Unwrap(local_participant_info[q]).guid.prefix :
     q \in {r \in Participants : local_participant_info[r] # None}}

\* the match on local_info.guid.prefix.cmp(&remote_participant_guidp)
initial_handshake_state_both_send(local_prefix, remote_participant_guidp) ==
  IF cmp(local_prefix, remote_participant_guidp) = "Equal"
  THEN None
  ELSE Some(<<PendingRequestSend, "PendingHandshakeRequest">>)

initial_handshake_state_swapped(local_prefix, remote_participant_guidp) ==
  LET ordering == cmp(local_prefix, remote_participant_guidp)
  IN  IF ordering = "Greater"
      THEN Some(<<PendingRequestSend, "PendingHandshakeRequest">>)
      ELSE IF ordering = "Less"
      THEN Some(<<PendingRequestMessage, "PendingHandshakeMessage">>)
      ELSE None

initial_handshake_state_equal_waits(local_prefix, remote_participant_guidp) ==
  IF cmp(local_prefix, remote_participant_guidp) = "Less"
  THEN Some(<<PendingRequestSend, "PendingHandshakeRequest">>)
  ELSE Some(<<PendingRequestMessage, "PendingHandshakeMessage">>)

initial_handshake_state(local_prefix, remote_participant_guidp) ==
  LET ordering == cmp(local_prefix, remote_participant_guidp)
  IN  IF ordering = "Less"
      THEN Some(<<PendingRequestSend, "PendingHandshakeRequest">>)
      ELSE IF ordering = "Greater"
      THEN Some(<<PendingRequestMessage, "PendingHandshakeMessage">>)
      ELSE None

validate_remote_identity(p) ==
  /\ Idle
  /\ \E local_identity_handle \in IdentityHandles,
        class_id \in {IDENTITY_TOKEN_CLASS_ID, "DDS:Auth:Other:1.0"},
        remote_participant_guidp \in GuidPrefixInputs:
       LET op == "validate_remote_identity"
           args == [local_identity_handle |-> local_identity_handle,
                    class_id |-> class_id,
                    remote_participant_guidp |-> remote_participant_guidp]
           fail(err) ==
             /\ ret' = WithArgs(RetErr(p, op, err, 0, 0, NoState), args)
             /\ UNCHANGED <<remote_participant_infos, next_identity_handle>>
       IN
       IF local_participant_info[p] = None
       THEN fail("Local participant info not found")
       ELSE
       LET local_info == Unwrap(local_participant_info[p])
           chosen == initial_handshake_state(local_info.guid.prefix,
                                             remote_participant_guidp)
           remote_identity_handle == next_identity_handle[p] + 1
       IN
       IF local_identity_handle # local_info.identity_handle
       THEN fail("The parameter local_identity_handle is not the correct local handle")
       ELSE IF class_id # IDENTITY_TOKEN_CLASS_ID
       THEN fail("Remote identity class_id")
       ELSE IF chosen = None
       THEN fail("Remote GUID is equal to the local GUID")
       ELSE
         /\ remote_identity_handle <= MaxIdentityHandle
         /\ next_identity_handle' =
              [next_identity_handle EXCEPT ![p] = remote_identity_handle]
         /\ remote_participant_infos' =
              [remote_participant_infos EXCEPT ![p] =
                 Insert(@, remote_identity_handle,
                        RemoteParticipantInfo(None, None, Unwrap(chosen)[1],
                                              remote_participant_guidp,
                                              Unwrap(chosen)[1]))]
         /\ ret' = WithArgs(Ret(p, op, TRUE, Unwrap(chosen)[2], "",
                                remote_identity_handle, 0, None, NoState), args)
  /\ UNCHANGED <<local_participant_info, handshake_to_identity_handle_map,
                 next_handshake_handle, net, tampered>>
  /\ UNCHANGED <<guidVars, chanVars, pureVars>>

(***************************************************************************)
(* begin_handshake_request                                                 *)
(***************************************************************************)
\* the serialized participant data the caller can pass: its own, announcing
\* the adjusted GUID, or one still announcing the candidate GUID
LocalPDataInputs(p, local_info) ==
  {PData(local_info.guid), PData(CandidateGuid(p))}

\* the check that the stored state is PendingRequestSend
expecting_request_send_or_message(state) ==
  state.tag \in {"PendingRequestSend", "PendingRequestMessage"}

expecting_request_send(state) == state.tag = "PendingRequestSend"

begin_handshake_request(p) ==
  /\ Idle
  /\ \E initiator_identity_handle \in IdentityHandles,
        replier_identity_handle \in IdentityHandles:
       LET op == "begin_handshake_request"
           args == [initiator_identity_handle |-> initiator_identity_handle,
                    replier_identity_handle |-> replier_identity_handle]
           fail(err, before) ==
             /\ ret' = WithArgs(RetErr(p, op, err, replier_identity_handle, 0, before),
                                args)
             /\ UNCHANGED <<remote_participant_infos, handshake_to_identity_handle_map,
                            next_handshake_handle, net>>
       IN
       IF local_participant_info[p] = None
       THEN fail("Local participant info not found", NoState)
       ELSE
       LET local_info == Unwrap(local_participant_info[p]) IN
       IF initiator_identity_handle # local_info.identity_handle
       THEN fail("The parameter initiator_identity_handle is not the correct local handle",
                 NoState)
       ELSE IF replier_identity_handle \notin DOMAIN remote_participant_infos[p]
       THEN fail("Remote participant info not found", NoState)
       ELSE
       LET remote_info == remote_participant_infos[p][replier_identity_handle] IN
       IF ~expecting_request_send(remote_info.handshake_state)
       THEN fail("We are not expecting to send a handshake request.",
                 remote_info.handshake_state)
       ELSE
       \E pdata_bytes \in LocalPDataInputs(p, local_info), dh_private \in DHPrivateKeys:
         LET my_id_certificate_text == local_info.identity_certificate
             my_permissions_doc_text == local_info.signed_permissions_document_xml
             dh_keys == DHKeys(ECDH_KAGREE_ALGO_NAME, dh_private)
             dsign_algo == signature_algorithm_identifier(local_info.identity_certificate)
             kagree_algo == kagree_algo_name_str(dh_keys)
             hash_c1 == hash_c(my_id_certificate_text, my_permissions_doc_text,
                               pdata_bytes, dsign_algo, kagree_algo)
             challenge1 == generate_random_32_bytes(p, next_handshake_handle[p] + 1)
             new_handshake_handle == next_handshake_handle[p] + 1
             session == <<p, new_handshake_handle>>
             handshake_request ==
               [NoToken EXCEPT
                  !.class_id = HANDSHAKE_REQUEST_CLASS_ID,
                  !.c_id = Some(my_id_certificate_text),
                  !.c_perm = Some(my_permissions_doc_text),
                  !.c_pdata = Some(pdata_bytes),
                  !.c_dsign_algo = Some(dsign_algo),
                  !.c_kagree_algo = Some(kagree_algo),
                  !.hash_c1 = Some(hash_c1),
                  !.dh1 = Some(public_key_bytes(dh_keys)),
                  !.challenge1 = Some(challenge1),
                  !.session = session]
         IN  /\ new_handshake_handle <= MaxHandshakeHandle
             /\ remote_participant_infos' =
                  [remote_participant_infos EXCEPT
                     ![p][replier_identity_handle].handshake_state =
                        PendingReplyMessage(dh_keys, challenge1, hash_c1, session)]
             /\ next_handshake_handle' =
                  [next_handshake_handle EXCEPT ![p] = new_handshake_handle]
             /\ handshake_to_identity_handle_map' =
                  [handshake_to_identity_handle_map EXCEPT ![p] =
                     Insert(@, new_handshake_handle, replier_identity_handle)]
             /\ net' = net \cup {handshake_request}
             /\ ret' = WithArgs(Ret(p, op, TRUE, "PendingHandshakeMessage", "",
                                    replier_identity_handle, new_handshake_handle,
                                    Some(handshake_request),
                                    remote_info.handshake_state),
                                args)
  /\ UNCHANGED <<local_participant_info, next_identity_handle, tampered>>
  /\ UNCHANGED <<guidVars, chanVars, pureVars>>

(***************************************************************************)
(* begin_handshake_reply                                                   *)
(***************************************************************************)
\* the sanity check on the hash(C1) received: a request that carries none is
\* not compared
received_hash_c1_mismatch_ignored(hash_c1_opt, computed_c1_hash) == FALSE

received_hash_c1_mismatch(hash_c1_opt, computed_c1_hash) ==
  IsSome(hash_c1_opt) /\ Unwrap(hash_c1_opt) # computed_c1_hash

\* the checks of begin_handshake_reply on the request, in the order of the
\* code; "" when all pass
begin_handshake_reply_error(local_info, request) ==
  IF ~extract_request(request) THEN "extract_request"
  ELSE IF ~from_pem(Unwrap(request.c_id)) THEN "Certificate::from_pem"
  ELSE IF ~verify_signed_by_certificate(Unwrap(request.c_id), local_info.identity_ca)
  THEN "verify_signed_by_certificate"
  ELSE IF ~from_pl_cdr_bytes(Unwrap(request.c_pdata))
  THEN "Failed to deserialize SpdpDiscoveredParticipantData from remote"
  ELSE IF ~validate_remote_guid(Unwrap(request.c_pdata).participant_guid,
                                Unwrap(request.c_id))
  THEN "Remote GUID does not comply with the spec"
  ELSE IF Unwrap(request.c_kagree_algo) \notin
            {DH_MODP_KAGREE_ALGO_NAME, ECDH_KAGREE_ALGO_NAME}
  THEN "Unexpected c_kagree_algo in handshake request"
  ELSE IF received_hash_c1_mismatch(
            request.hash_c1,
            hash_c(Unwrap(request.c_id), Unwrap(request.c_perm),
                   Unwrap(request.c_pdata), Unwrap(request.c_dsign_algo),
                   Unwrap(request.c_kagree_algo)))
  THEN "begin_handshake_reply: hash_c1 mismatch"
  ELSE ""

\* the key pair of the responder: of the algorithm the request names
new_dh2_keys_always_ec(c_kagree_algo, dh_private) ==
  DHKeys(ECDH_KAGREE_ALGO_NAME, dh_private)

new_dh2_keys(c_kagree_algo, dh_private) ==
  IF c_kagree_algo = DH_MODP_KAGREE_ALGO_NAME
  THEN DHKeys(DH_MODP_KAGREE_ALGO_NAME, dh_private)
  ELSE DHKeys(ECDH_KAGREE_ALGO_NAME, dh_private)

\* Sign(Hash(C2) | Challenge2 | DH2 | Challenge1 | DH1 | Hash(C1)), Table 50
cc2_properties(hash_c2, challenge2, dh2, challenge1, dh1, hash_c1) ==
  <<<<"hash_c2", hash_c2>>, <<"challenge2", challenge2>>, <<"dh2", dh2>>,
    <<"challenge1", challenge1>>, <<"dh1", dh1>>, <<"hash_c1", hash_c1>>>>

\* Sign(Hash(C1) | Challenge1 | DH1 | Challenge2 | DH2 | Hash(C2)), Table 51
cc_final_properties(hash_c1, challenge1, dh1, challenge2, dh2, hash_c2) ==
  <<<<"hash_c1", hash_c1>>, <<"challenge1", challenge1>>, <<"dh1", dh1>>,
    <<"challenge2", challenge2>>, <<"dh2", dh2>>, <<"hash_c2", hash_c2>>>>

\* the entry of the remote participant when a check on the request has
\* failed: every check returns before the entry is borrowed mutably
remote_info_after_rejected_request_keeps_cert(remote_info, request) ==
  IF IsSome(request.c_id)
  THEN [remote_info EXCEPT !.identity_certificate_opt = request.c_id]
  ELSE remote_info

remote_info_after_rejected_request(remote_info, request) == remote_info

begin_handshake_reply(p) ==
  /\ Idle
  /\ \E handshake_message_in \in net,
        initiator_identity_handle \in IdentityHandles,
        replier_identity_handle \in IdentityHandles:
       LET op == "begin_handshake_reply"
           args == [initiator_identity_handle |-> initiator_identity_handle,
                    replier_identity_handle |-> replier_identity_handle]
           fail(err, before) ==
             /\ ret' = WithArgs(WithMsg(RetErr(p, op, err, initiator_identity_handle,
                                               0, before),
                                        handshake_message_in),
                                args)
             /\ UNCHANGED <<remote_participant_infos, handshake_to_identity_handle_map,
                            next_handshake_handle, net>>
       IN
       IF local_participant_info[p] = None
       THEN fail("Local participant info not found", NoState)
       ELSE
       LET local_info == Unwrap(local_participant_info[p]) IN
       IF replier_identity_handle # local_info.identity_handle
       THEN fail("The parameter replier_identity_handle is not the correct local handle",
                 NoState)
       ELSE IF initiator_identity_handle \notin DOMAIN remote_participant_infos[p]
       THEN fail("Remote participant info not found", NoState)
       ELSE
       LET remote_info == remote_participant_infos[p][initiator_identity_handle]
           request == handshake_message_in
           err == begin_handshake_reply_error(local_info, request)
       IN
       IF remote_info.handshake_state.tag # "PendingRequestMessage"
       THEN fail("We are not expecting to receive a handshake request.",
                 remote_info.handshake_state)
       ELSE IF err # ""
       THEN /\ ret' = WithArgs(WithMsg(RetErr(p, op, err, initiator_identity_handle,
                                              0, remote_info.handshake_state),
                                       handshake_message_in),
                               args)
            /\ remote_participant_infos' =
                 [remote_participant_infos EXCEPT
                    ![p][initiator_identity_handle] =
                       remote_info_after_rejected_request(@, request)]
            /\ UNCHANGED <<handshake_to_identity_handle_map, next_handshake_handle, net>>
       ELSE
       \E pdata_bytes \in LocalPDataInputs(p, local_info), dh_private \in DHPrivateKeys:
         LET my_id_certificate_text == local_info.identity_certificate
             my_permissions_doc_text == local_info.signed_permissions_document_xml
             cert1 == Unwrap(request.c_id)
             dh2_keys == new_dh2_keys(Unwrap(request.c_kagree_algo), dh_private)
             kagree_algo == kagree_algo_name_str(dh2_keys)
             computed_c1_hash ==
               hash_c(Unwrap(request.c_id), Unwrap(request.c_perm),
                      Unwrap(request.c_pdata), Unwrap(request.c_dsign_algo),
                      Unwrap(request.c_kagree_algo))
             challenge2 == generate_random_32_bytes(p, next_handshake_handle[p] + 1)
             dh2_public_key == public_key_bytes(dh2_keys)
             my_dsign_algo == signature_algorithm_identifier(local_info.identity_certificate)
             c2_hash == hash_c(my_id_certificate_text, my_permissions_doc_text,
                               pdata_bytes, my_dsign_algo, kagree_algo)
             contents_signature ==
               sign(local_info.id_cert_private_key,
                    cc2_properties(c2_hash, challenge2, dh2_public_key,
                                   Unwrap(request.challenge1), Unwrap(request.dh1),
                                   computed_c1_hash))
             reply_token ==
               [NoToken EXCEPT
                  !.class_id = HANDSHAKE_REPLY_CLASS_ID,
                  !.c_id = Some(my_id_certificate_text),
                  !.c_perm = Some(my_permissions_doc_text),
                  !.c_pdata = Some(pdata_bytes),
                  !.c_dsign_algo = Some(my_dsign_algo),
                  !.c_kagree_algo = Some(kagree_algo),
                  !.hash_c1 = Some(computed_c1_hash),
                  !.dh1 = Some(Unwrap(request.dh1)),
                  !.hash_c2 = Some(c2_hash),
                  !.dh2 = Some(dh2_public_key),
                  !.challenge1 = Some(Unwrap(request.challenge1)),
                  !.challenge2 = Some(challenge2),
                  !.signature = Some(contents_signature),
                  !.session = request.session]
             new_handshake_handle == next_handshake_handle[p] + 1
         IN  /\ new_handshake_handle <= MaxHandshakeHandle
             /\ remote_participant_infos' =
                  [remote_participant_infos EXCEPT
                     ![p][initiator_identity_handle] =
                        [@ EXCEPT
                           !.handshake_state =
                              PendingFinalMessage(computed_c1_hash, c2_hash,
                                                  Unwrap(request.dh1),
                                                  Unwrap(request.challenge1),
                                                  dh2_keys, challenge2, cert1,
                                                  request.session),
                           !.identity_certificate_opt = Some(cert1),
                           !.signed_permissions_xml_opt = Some(Unwrap(request.c_perm))]]
             /\ next_handshake_handle' =
                  [next_handshake_handle EXCEPT ![p] = new_handshake_handle]
             /\ handshake_to_identity_handle_map' =
                  [handshake_to_identity_handle_map EXCEPT ![p] =
                     Insert(@, new_handshake_handle, initiator_identity_handle)]
             /\ net' = net \cup {reply_token}
             /\ ret' = WithArgs(WithMsg(Ret(p, op, TRUE, "PendingHandshakeMessage", "",
                                            initiator_identity_handle,
                                            new_handshake_handle, Some(reply_token),
                                            remote_info.handshake_state),
                                        handshake_message_in),
                                args)
  /\ UNCHANGED <<local_participant_info, next_identity_handle, tampered>>
  /\ UNCHANGED <<guidVars, chanVars, pureVars>>

(***************************************************************************)
(* process_handshake                                                       *)
(***************************************************************************)
\* the shared secret of the initiator: dh1.compute_shared_secret(reply.dh2)
initiator_shared_secret_own_key(dh1, reply_dh2) ==
  compute_shared_secret(dh1, public_key_bytes(dh1))

initiator_shared_secret(dh1, reply_dh2) == compute_shared_secret(dh1, reply_dh2)

\* the shared secret of the responder: dh2.compute_shared_secret(dh1_public)
responder_shared_secret(dh2, dh1_public) == compute_shared_secret(dh2, dh1_public)

\* the check that the reply echoes the challenge1 kept since the request
challenge1_mismatch_ignored(challenge1, reply_challenge1) == FALSE

challenge1_mismatch(challenge1, reply_challenge1) == challenge1 # reply_challenge1

\* the checks of the PendingReplyMessage arm on the reply, in the order of
\* the code; "" when all pass
process_reply_error_no_ca(local_info, state, reply) ==
  IF ~extract_reply(reply) THEN "extract_reply"
  ELSE IF ~from_pem(Unwrap(reply.c_id)) THEN "Certificate::from_pem"
  ELSE IF ~from_pl_cdr_bytes(Unwrap(reply.c_pdata))
  THEN "Failed to deserialize SpdpDiscoveredParticipantData from remote"
  ELSE IF ~validate_remote_guid(Unwrap(reply.c_pdata).participant_guid,
                                Unwrap(reply.c_id))
  THEN "Remote GUID does not comply with the spec"
  ELSE IF state.challenge1 # Unwrap(reply.challenge1)
  THEN "Challenge 1 mismatch on authentication reply"
  ELSE IF IsSome(reply.hash_c1) /\ state.hash_c1 # Unwrap(reply.hash_c1)
  THEN "Hash C1 mismatch on authentication reply"
  ELSE
  LET c2_hash_recomputed ==
        hash_c(Unwrap(reply.c_id), Unwrap(reply.c_perm), Unwrap(reply.c_pdata),
               Unwrap(reply.c_dsign_algo), Unwrap(reply.c_kagree_algo))
  IN
  IF IsSome(reply.hash_c2) /\ Unwrap(reply.hash_c2) # c2_hash_recomputed
  THEN "process_handshake: hash_c2 mismatch"
  ELSE IF ~parse_signature_algo_name_to_ring(Unwrap(reply.c_dsign_algo))
  THEN "parse_signature_algo_name_to_ring"
  ELSE IF ~verify_signed_data_with_algorithm(
             Unwrap(reply.c_id),
             cc2_properties(c2_hash_recomputed, Unwrap(reply.challenge2),
                            Unwrap(reply.dh2), Unwrap(reply.challenge1),
                            Unwrap(reply.dh1), state.hash_c1),
             Unwrap(reply.signature), Unwrap(reply.c_dsign_algo))
  THEN "verify_signed_data_with_algorithm"
  ELSE IF Unwrap(reply.c_kagree_algo) # kagree_algo_name_str(state.dh1)
  THEN "Unexpected key agreement algorithm in HandshakeReplyMessageToken"
  ELSE IF initiator_shared_secret(state.dh1, Unwrap(reply.dh2)) = None
  THEN "compute_shared_secret"
  ELSE ""

process_reply_error(local_info, state, reply) ==
  IF ~extract_reply(reply) THEN "extract_reply"
  ELSE IF ~from_pem(Unwrap(reply.c_id)) THEN "Certificate::from_pem"
  ELSE IF ~verify_signed_by_certificate(Unwrap(reply.c_id), local_info.identity_ca)
  THEN "verify_signed_by_certificate"
  ELSE IF ~from_pl_cdr_bytes(Unwrap(reply.c_pdata))
  THEN "Failed to deserialize SpdpDiscoveredParticipantData from remote"
  ELSE IF ~validate_remote_guid(Unwrap(reply.c_pdata).participant_guid,
                                Unwrap(reply.c_id))
  THEN "Remote GUID does not comply with the spec"
  ELSE IF challenge1_mismatch(state.challenge1, Unwrap(reply.challenge1))
  THEN "Challenge 1 mismatch on authentication reply"
  ELSE IF IsSome(reply.hash_c1) /\ state.hash_c1 # Unwrap(reply.hash_c1)
  THEN "Hash C1 mismatch on authentication reply"
  ELSE
  LET c2_hash_recomputed ==
        hash_c(Unwrap(reply.c_id), Unwrap(reply.c_perm), Unwrap(reply.c_pdata),
               Unwrap(reply.c_dsign_algo), Unwrap(reply.c_kagree_algo))
  IN
  IF IsSome(reply.hash_c2) /\ Unwrap(reply.hash_c2) # c2_hash_recomputed
  THEN "process_handshake: hash_c2 mismatch"
  ELSE IF ~parse_signature_algo_name_to_ring(Unwrap(reply.c_dsign_algo))
  THEN "parse_signature_algo_name_to_ring"
  ELSE IF ~verify_signed_data_with_algorithm(
             Unwrap(reply.c_id),
             cc2_properties(c2_hash_recomputed, Unwrap(reply.challenge2),
                            Unwrap(reply.dh2), Unwrap(reply.challenge1),
                            Unwrap(reply.dh1), state.hash_c1),
             Unwrap(reply.signature), Unwrap(reply.c_dsign_algo))
  THEN "verify_signed_data_with_algorithm"
  ELSE IF Unwrap(reply.c_kagree_algo) # kagree_algo_name_str(state.dh1)
  THEN "Unexpected key agreement algorithm in HandshakeReplyMessageToken"
  ELSE IF initiator_shared_secret(state.dh1, Unwrap(reply.dh2)) = None
  THEN "compute_shared_secret"
  ELSE ""

\* the checks of the PendingFinalMessage arm on the final message
process_final_error_no_signature(local_info, state, final_token) ==
  IF ~extract_final(final_token) THEN "extract_final"
  ELSE IF IsSome(final_token.hash_c1) /\ state.hash_c1 # Unwrap(final_token.hash_c1)
  THEN "Hash C1 mismatch on authentication final receive"
  ELSE IF IsSome(final_token.hash_c2) /\ state.hash_c2 # Unwrap(final_token.hash_c2)
  THEN "Hash C2 mismatch on authentication final receive"
  ELSE IF state.dh1_public # Unwrap(final_token.dh1)
  THEN "Diffie-Hellman parameter DH1 mismatch on authentication final receive"
  ELSE IF public_key_bytes(state.dh2) # Unwrap(final_token.dh2)
  THEN "Diffie-Hellman parameter DH2 mismatch on authentication final receive"
  ELSE IF state.challenge1 # Unwrap(final_token.challenge1)
  THEN "process_handshake: Final token challenge1 mismatch"
  ELSE IF state.challenge2 # Unwrap(final_token.challenge2)
  THEN "process_handshake: Final token challenge2 mismatch"
  ELSE IF ~parse_signature_algo_name_to_ring(
             signature_algorithm_identifier(state.remote_id_certificate))
  THEN "parse_signature_algo_name_to_ring"
  ELSE IF responder_shared_secret(state.dh2, state.dh1_public) = None
  THEN "compute_shared_secret"
  ELSE ""

process_final_error(local_info, state, final_token) ==
  IF ~extract_final(final_token) THEN "extract_final"
  ELSE IF IsSome(final_token.hash_c1) /\ state.hash_c1 # Unwrap(final_token.hash_c1)
  THEN "Hash C1 mismatch on authentication final receive"
  ELSE IF IsSome(final_token.hash_c2) /\ state.hash_c2 # Unwrap(final_token.hash_c2)
  THEN "Hash C2 mismatch on authentication final receive"
  ELSE IF state.dh1_public # Unwrap(final_token.dh1)
  THEN "Diffie-Hellman parameter DH1 mismatch on authentication final receive"
  ELSE IF public_key_bytes(state.dh2) # Unwrap(final_token.dh2)
  THEN "Diffie-Hellman parameter DH2 mismatch on authentication final receive"
  ELSE IF state.challenge1 # Unwrap(final_token.challenge1)
  THEN "process_handshake: Final token challenge1 mismatch"
  ELSE IF state.challenge2 # Unwrap(final_token.challenge2)
  THEN "process_handshake: Final token challenge2 mismatch"
  ELSE IF ~parse_signature_algo_name_to_ring(
             signature_algorithm_identifier(state.remote_id_certificate))
  THEN "parse_signature_algo_name_to_ring"
  ELSE IF ~verify_signed_data_with_algorithm(
             state.remote_id_certificate,
             cc_final_properties(state.hash_c1, state.challenge1, state.dh1_public,
                                 state.challenge2, public_key_bytes(state.dh2),
                                 state.hash_c2),
             Unwrap(final_token.signature),
             signature_algorithm_identifier(state.remote_id_certificate))
  THEN "Signature verification failed in process_handshake"
  ELSE IF responder_shared_secret(state.dh2, state.dh1_public) = None
  THEN "compute_shared_secret"
  ELSE ""

\* The match on the state moved out of remote_info: the error, or the new
\* state, the outcome, the token to send and the credentials to store.
process_handshake_result(local_info, state, handshake_message_in) ==
  IF state.tag = "PendingReplyMessage"
  THEN
    LET reply == handshake_message_in
        err == process_reply_error(local_info, state, reply)
        c2_hash_recomputed ==
          hash_c(Unwrap(reply.c_id), Unwrap(reply.c_perm), Unwrap(reply.c_pdata),
                 Unwrap(reply.c_dsign_algo), Unwrap(reply.c_kagree_algo))
        dh1_public_key == public_key_bytes(state.dh1)
        shared_secret == Unwrap(initiator_shared_secret(state.dh1, Unwrap(reply.dh2)))
        final_contents_signature ==
          sign(local_info.id_cert_private_key,
               cc_final_properties(state.hash_c1, state.challenge1, dh1_public_key,
                                   Unwrap(reply.challenge2), Unwrap(reply.dh2),
                                   c2_hash_recomputed))
        final_message_token ==
          [NoToken EXCEPT
             !.class_id = HANDSHAKE_FINAL_CLASS_ID,
             !.hash_c1 = Some(state.hash_c1),
             !.dh1 = Some(dh1_public_key),
             !.hash_c2 = Some(c2_hash_recomputed),
             !.dh2 = Some(Unwrap(reply.dh2)),
             !.challenge1 = Some(Unwrap(reply.challenge1)),
             !.challenge2 = Some(Unwrap(reply.challenge2)),
             !.signature = Some(final_contents_signature),
             !.session = state.session]
    IN  IF err # "" THEN [err |-> err]
        ELSE [err |-> "",
              state |-> CompletedWithFinalMessageSent(
                          state.challenge1, Unwrap(reply.challenge2), shared_secret,
                          state.session),
              outcome |-> "OkFinalMessage",
              token |-> Some(final_message_token),
              store |-> Some(<<Unwrap(reply.c_id), Unwrap(reply.c_perm)>>)]
  ELSE IF state.tag = "PendingFinalMessage"
  THEN
    LET err == process_final_error(local_info, state, handshake_message_in)
        shared_secret == Unwrap(responder_shared_secret(state.dh2, state.dh1_public))
    IN  IF err # "" THEN [err |-> err]
        ELSE [err |-> "",
              state |-> CompletedWithFinalMessageReceived(
                          state.challenge1, state.challenge2, shared_secret,
                          state.session),
              outcome |-> "Ok",
              token |-> None,
              store |-> None]
  ELSE [err |-> "Unexpected handshake state"]

\* what remote_info.handshake.state holds when process_handshake returns:
\* std::mem::swap left the dummy PendingRequestSend there, and only the two
\* successful arms assign the state again
state_after_process_handshake_dummy(state, result) == PendingRequestSend

state_after_process_handshake(state, result) ==
  IF result.err = "" THEN result.state ELSE PendingRequestSend

process_handshake(p) ==
  /\ Idle
  /\ \E handshake_message_in \in net, handshake_handle \in HandshakeHandles:
       LET op == "process_handshake" IN
       IF handshake_handle \notin DOMAIN handshake_to_identity_handle_map[p]
       THEN /\ ret' = WithMsg(RetErr(p, op, "Identity handle not found with handshake handle",
                                     0, handshake_handle, NoState),
                              handshake_message_in)
            /\ UNCHANGED <<remote_participant_infos, net>>
       ELSE
       LET remote_identity_handle == handshake_to_identity_handle_map[p][handshake_handle]
           remote_info == remote_participant_infos[p][remote_identity_handle]
           state == remote_info.handshake_state
           local_info == Unwrap(local_participant_info[p])
           result == process_handshake_result(local_info, state, handshake_message_in)
           after == state_after_process_handshake(state, result)
       IN
       IF result.err # ""
       THEN /\ remote_participant_infos' =
                 [remote_participant_infos EXCEPT
                    ![p][remote_identity_handle].handshake_state = after]
            /\ ret' = WithMsg(RetErr(p, op, result.err, remote_identity_handle,
                                     handshake_handle, state),
                              handshake_message_in)
            /\ UNCHANGED net
       ELSE /\ remote_participant_infos' =
                 [remote_participant_infos EXCEPT
                    ![p][remote_identity_handle] =
                       [@ EXCEPT
                          !.handshake_state = after,
                          !.identity_certificate_opt =
                             IF result.store = None THEN @
                             ELSE Some(Unwrap(result.store)[1]),
                          !.signed_permissions_xml_opt =
                             IF result.store = None THEN @
                             ELSE Some(Unwrap(result.store)[2])]]
            /\ net' = IF result.token = None THEN net
                      ELSE net \cup {Unwrap(result.token)}
            /\ ret' = WithMsg(Ret(p, op, TRUE, result.outcome, "", remote_identity_handle,
                                  handshake_handle, result.token, state),
                              handshake_message_in)
  /\ UNCHANGED <<local_participant_info, handshake_to_identity_handle_map,
                 next_identity_handle, next_handshake_handle, tampered>>
  /\ UNCHANGED <<guidVars, chanVars, pureVars>>

(***************************************************************************)
(* get_shared_secret                                                       *)
(***************************************************************************)
get_shared_secret_result_sent_only(state) ==
  IF state.tag = "CompletedWithFinalMessageSent"
  THEN Some([challenge1 |-> state.challenge1, challenge2 |-> state.challenge2,
             shared_secret |-> state.shared_secret])
  ELSE None

get_shared_secret_result(state) ==
  IF state.tag \in CompletedTags
  THEN Some([challenge1 |-> state.challenge1, challenge2 |-> state.challenge2,
             shared_secret |-> state.shared_secret])
  ELSE None

get_shared_secret(p) ==
  /\ Idle
  /\ \E remote_identity_handle \in IdentityHandles:
       LET op == "get_shared_secret" IN
       IF remote_identity_handle \notin DOMAIN remote_participant_infos[p]
       THEN ret' = RetErr(p, op, "Remote participant info not found",
                          remote_identity_handle, 0, NoState)
       ELSE
       LET state == remote_participant_infos[p][remote_identity_handle].handshake_state
           result == get_shared_secret_result(state)
       IN  IF result = None
           THEN ret' = RetErr(p, op, "get_shared_secret called with wrong state",
                              remote_identity_handle, 0, state)
           ELSE ret' = [Ret(p, op, TRUE, "", "", remote_identity_handle, 0, None, state)
                          EXCEPT !.secret = result]
  /\ UNCHANGED <<local_participant_info, remote_participant_infos,
                 handshake_to_identity_handle_map, next_identity_handle,
                 next_handshake_handle, net, tampered>>
  /\ UNCHANGED <<guidVars, chanVars, pureVars>>

(***************************************************************************)
(* The network between the participants: it delivers any token any number  *)
(* of times, and can modify one field of a token in flight.  A token is    *)
(* modified as it is sent (it is the token the last call returned): the    *)
(* forged copy can still be delivered at any later time.                   *)
(***************************************************************************)
OtherPublicKey(k) == [k EXCEPT !.y = IF k.y = 4 THEN 8 ELSE 4]

\* the GUID with byte i of the prefix changed
OtherGuid(guid, i) == [guid EXCEPT !.prefix[i] = (@ + 1) % 256]

\* the token with other participant data; a request carries no signature, so
\* its hash_c1 can be recomputed to fit
WithPData(t, pdata) ==
  IF t.class_id = HANDSHAKE_REQUEST_CLASS_ID
  THEN [t EXCEPT !.c_pdata = Some(pdata),
                 !.hash_c1 = Some(hash_c(Unwrap(t.c_id), Unwrap(t.c_perm), pdata,
                                         Unwrap(t.c_dsign_algo), Unwrap(t.c_kagree_algo)))]
  ELSE [t EXCEPT !.c_pdata = Some(pdata)]

\* the request of a participant that proposes the other key agreement
\* algorithm: a request carries no signature, so its hash_c1 is made to fit
WithKagree(t, kagree_algo) ==
  [t EXCEPT !.c_kagree_algo = Some(kagree_algo),
            !.hash_c1 = Some(hash_c(Unwrap(t.c_id), Unwrap(t.c_perm), Unwrap(t.c_pdata),
                                    Unwrap(t.c_dsign_algo), kagree_algo))]

TamperedTokens(t) ==
  (IF t.class_id = HANDSHAKE_REQUEST_CLASS_ID
   THEN {WithKagree(t, DH_MODP_KAGREE_ALGO_NAME)}
   ELSE {})
  \cup
  (IF IsSome(t.c_id)
   THEN {[t EXCEPT !.c_id = Some([Unwrap(t.c_id) EXCEPT !.issuer = "kCA2", !.key = "kM"])],
         [t EXCEPT !.c_id = Some([Unwrap(t.c_id) EXCEPT !.pem_ok = FALSE])]}
   ELSE {})
  \cup
  (IF IsSome(t.c_pdata)
   THEN {[t EXCEPT !.c_pdata = Some(GarbagePData)],
         [t EXCEPT !.c_pdata = Some(PData([prefix |-> SpoofPrefix,
                                           entity_id |-> "PARTICIPANT"]))],
         WithPData(t, PData(OtherGuid(Unwrap(t.c_pdata).participant_guid, 6))),
         WithPData(t, PData(OtherGuid(Unwrap(t.c_pdata).participant_guid, 7))),
         [t EXCEPT !.c_perm = Some("forged")],
         [t EXCEPT !.c_dsign_algo = Some("unknown")],
         [t EXCEPT !.c_kagree_algo = Some("unknown")],
         [t EXCEPT !.c_kagree_algo =
            Some(IF Unwrap(t.c_kagree_algo) = ECDH_KAGREE_ALGO_NAME
                 THEN DH_MODP_KAGREE_ALGO_NAME ELSE ECDH_KAGREE_ALGO_NAME)]}
   ELSE {})
  \cup {[t EXCEPT !.hash_c1 = None], [t EXCEPT !.hash_c2 = None]}
  \cup {[t EXCEPT !.challenge1 = Some(ForgedChallenge)],
        [t EXCEPT !.dh1 = Some(OtherPublicKey(Unwrap(t.dh1)))]}
  \cup
  (IF IsSome(t.dh2)
   THEN {[t EXCEPT !.challenge2 = Some(ForgedChallenge)],
         [t EXCEPT !.dh2 = Some(OtherPublicKey(Unwrap(t.dh2)))],
         [t EXCEPT !.signature = Some([Unwrap(t.signature) EXCEPT !.signer = "kM"])]}
   ELSE {})
  \cup
  \* a reply re-issued under a certificate of another CA: the sender's subject
  \* name, the attacker's key, hash and signature recomputed to fit
  (IF t.class_id = HANDSHAKE_REPLY_CLASS_ID
   THEN LET cert == [Unwrap(t.c_id) EXCEPT !.issuer = "kCA2", !.key = "kM"]
            c2_hash == hash_c(cert, Unwrap(t.c_perm), Unwrap(t.c_pdata),
                              Unwrap(t.c_dsign_algo), Unwrap(t.c_kagree_algo))
        IN  {[t EXCEPT !.c_id = Some(cert),
                       !.hash_c2 = Some(c2_hash),
                       !.signature =
                          Some(sign("kM",
                                    cc2_properties(c2_hash, Unwrap(t.challenge2),
                                                   Unwrap(t.dh2), Unwrap(t.challenge1),
                                                   Unwrap(t.dh1), Unwrap(t.hash_c1))))]}
   ELSE {})

Tamper ==
  /\ tampered < MaxTamper
  /\ IsSome(ret.token)
  /\ \E forged \in TamperedTokens(Unwrap(ret.token)):
       /\ forged \notin net
       /\ net' = net \cup {forged}
  /\ tampered' = tampered + 1
  /\ UNCHANGED <<local_participant_info, remote_participant_infos,
                 handshake_to_identity_handle_map, next_identity_handle,
                 next_handshake_handle, ret>>
  /\ UNCHANGED <<guidVars, chanVars, pureVars>>

\* the caller takes the result of the call
Return ==
  /\ ~Idle
  /\ ret' = NoRet
  /\ UNCHANGED <<local_participant_info, remote_participant_infos,
                 handshake_to_identity_handle_map, next_identity_handle,
                 next_handshake_handle, net, tampered>>
  /\ UNCHANGED <<guidVars, chanVars, pureVars>>

(***************************************************************************)
(* Initial values of the parts a specification leaves alone                *)
(***************************************************************************)
GuidIdle ==
  /\ g_cert = Certificate(<<0, 0, 0, 0, 0, 0, 0, 0>>, "kCA1", "k", TRUE)
  /\ g_candidate = CandidateGuid("A")
  /\ g_candidate_hash = CandidateGuidHash("A")
  /\ g_adjusted = None
  /\ g_remote = None
  /\ g_check = None

\* no call on a configuration URI made yet
NoUriRet == [op |-> "", ok |-> FALSE, err |-> "", bytes |-> ""]

UriIdle ==
  /\ u_uri = <<>>
  /\ u_file_ok = TRUE
  /\ u_key_ok = TRUE
  /\ u_ret = NoUriRet

\* EntityId: entity_key and entity_kind, 4 bytes
EntityId(entity_key, entity_kind) == [entity_key |-> entity_key, entity_kind |-> entity_kind]
SEDP_BUILTIN_PUBLICATIONS_WRITER == EntityId(<<0, 0, 3>>, 194)
SEDP_BUILTIN_PUBLICATIONS_READER == EntityId(<<0, 0, 3>>, 199)

\* SequenceNumber: an i64, kept as its high 32 bits (signed) and its low 32
\* bits (unsigned)
SequenceNumber(high, low) == [high |-> high, low |-> low]

\* SequenceNumberSet: the base, the number of bits and the words of the bitmap
SequenceNumberSet(bitmap_base, num_bits, bitmap) ==
  [bitmap_base |-> bitmap_base, num_bits |-> num_bits, bitmap |-> bitmap]
new_empty(bitmap_base) == SequenceNumberSet(bitmap_base, 0, <<>>)

Gap(reader_id, writer_id, gap_start, gap_list) ==
  [reader_id |-> reader_id, writer_id |-> writer_id, gap_start |-> gap_start,
   gap_list |-> gap_list]

GapIdle ==
  /\ gp_gap = Gap(SEDP_BUILTIN_PUBLICATIONS_READER, SEDP_BUILTIN_PUBLICATIONS_WRITER,
                  SequenceNumber(0, 42), new_empty(SequenceNumber(0, 7)))
  /\ gp_endian = "le"
  /\ gp_bytes = None
  /\ gp_decoded = None
  /\ gp_reencoded = None

\* no call on the DataReader made yet
NoDrRet == [op |-> "", result |-> <<>>, cache_before |-> <<>>, read_condition |-> ""]

\* a DataReader that has received nothing
DrIdle ==
  /\ dr_cache = <<>>
  /\ dr_received = 0
  /\ dr_iter = None
  /\ dr_provided = {}
  /\ dr_ret = NoDrRet

\* no poll_next in progress
PollIdle == [pc |-> "idle", cx_waker |-> "", received |-> "", item |-> 0, queue_before |-> <<>>]

\* no try_send in progress
SendIdle == [pc |-> "idle", t |-> 0, queue_before |-> <<>>]

\* the waker mutex is free and nothing is in progress
WakeIdle ==
  /\ wk_lock = ""
  /\ wk_poll = PollIdle
  /\ wk_send = SendIdle
  /\ wk_unwoken = None

PureIdle == UriIdle /\ GapIdle /\ DrIdle /\ WakeIdle

\* bounds of the model: the capacity given to sync_status_channel, the
\* try_send calls made, the sender clones alive at a time
Capacity == 2
MaxItems == 4
MaxSenders == 2

\* the capacities sync_status_channel is called with: a channel of capacity
\* 0 holds no item, so that every try_send finds it full
Capacities == {0, Capacity}

\* the last call on the channel: what it returned ("" while it has not) and
\* what it found
ChanRet(op, result, item, queue_before, waker_before, receiver_before) ==
  [op |-> op, result |-> result, item |-> item, queue_before |-> queue_before,
   waker_before |-> waker_before, receiver_before |-> receiver_before,
   cx_waker |-> None]
NoChanRet == ChanRet("", "", 0, <<>>, None, TRUE)

\* sync_status_channel: one sender, one receiver, an empty queue, no waker
sync_status_channel(capacity) ==
  /\ ch_capacity = capacity
  /\ ch_queue = <<>>
  /\ ch_signal = FALSE
  /\ ch_waker = None
  /\ ch_woken = {}
  /\ ch_senders = 1
  /\ ch_receiver = TRUE
  /\ ch_terminated = FALSE
  /\ ch_sent = 0
  /\ ch_pc = "idle"
  /\ ch_ret = NoChanRet
  /\ ch_received = <<>>
  /\ ch_full = {}
  /\ ch_stream = FALSE
  /\ ch_at_drop = {}

(***************************************************************************)
(* The handshake specification: any caller, any order of calls, a network  *)
(* that replays and modifies tokens.                                       *)
(***************************************************************************)
Init == HsInit /\ GuidIdle /\ sync_status_channel(Capacity) /\ PureIdle

Next ==
  \/ \E p \in Participants: validate_local_identity(p)
  \/ \E p \in Participants: validate_remote_identity(p)
  \/ \E p \in Participants: begin_handshake_request(p)
  \/ \E p \in Participants: begin_handshake_reply(p)
  \/ \E p \in Participants: process_handshake(p)
  \/ \E p \in Participants: get_shared_secret(p)
  \/ Tamper
  \/ Return

Spec == Init /\ [][Next]_vars

(***************************************************************************)
(* The handshake driven as discovery drives it: every token goes, as it    *)
(* was sent, to the call that expects it, the participant data announces   *)
(* the GUID validate_local_identity returned, and a call that can be made  *)
(* is made at some time.                                                   *)
(***************************************************************************)
AnnouncesOwnGuid(p, token) ==
  Unwrap(token.c_pdata) = PData(Unwrap(local_participant_info[p]).guid)

DiscoverRemote(p) == validate_remote_identity(p) /\ ret'.ok

SendRequest(p) ==
  /\ begin_handshake_request(p)
  /\ ret'.ok
  /\ AnnouncesOwnGuid(p, Unwrap(ret'.token))

ReceiveRequest(p) ==
  /\ begin_handshake_reply(p)
  /\ ret'.ok
  /\ AnnouncesOwnGuid(p, Unwrap(ret'.token))

ReceiveMessage(p) == process_handshake(p) /\ ret'.ok

NextLive ==
  \/ \E p \in Participants: validate_local_identity(p)
  \/ \E p \in Participants: DiscoverRemote(p)
  \/ \E p \in Participants: SendRequest(p)
  \/ \E p \in Participants: ReceiveRequest(p)
  \/ \E p \in Participants: ReceiveMessage(p)
  \/ Return

\* every call of the driver changes the state of a handshake, so a call
\* that can be made stays possible until a call is made
FairLive == WF_vars(NextLive)

SpecLive == Init /\ [][NextLive]_vars /\ FairLive

(***************************************************************************)
(* The GUID derivation on drawn inputs                                     *)
(***************************************************************************)
\* bytes of the subject name hash: no bit set, the top and the bottom bit
\* set, all bits set.  The first 6 bytes are drawn; the bits of the last two
\* never reach the 6 bytes kept.
SampleBytes == {0, 129, 255}

InitGuid ==
  /\ HsInit /\ sync_status_channel(Capacity) /\ PureIdle
  /\ g_cert \in {Certificate(h \o <<255, 255>>, "kCA1", "k", TRUE) :
                   h \in [1..6 -> SampleBytes]}
  /\ g_candidate \in {CandidateGuid(p) : p \in Participants}
  /\ g_candidate_hash = CandidateGuidHash("A")
  /\ g_adjusted = None
  /\ g_remote = None
  /\ g_check = None

\* validate_local_identity, the computation of the adjusted GUID
DeriveGuid ==
  /\ g_adjusted = None
  /\ g_adjusted' = Some(adjusted_guid(g_cert, g_candidate, g_candidate_hash))
  /\ UNCHANGED <<g_cert, g_candidate, g_candidate_hash, g_remote, g_check>>
  /\ UNCHANGED <<hsVars, chanVars, pureVars>>

\* the GUID with bit b (0 the least significant) of byte i of the prefix
\* inverted
FlipBit(guid, i, b) ==
  [guid EXCEPT !.prefix[i] = IF (@ \div (2 ^ b)) % 2 = 1 THEN @ - 2 ^ b ELSE @ + 2 ^ b]

\* the GUIDs a remote participant can announce: the derived one, the
\* candidate, and the derived one with one byte changed
RemoteGuidInputs ==
  LET derived == adjusted_guid(g_cert, g_candidate, g_candidate_hash)
  IN  {derived, g_candidate} \cup {OtherGuid(derived, i) : i \in {1, 6, 7}}

\* a call of validate_remote_guid
ValidateGuid ==
  /\ \E remote_guid \in RemoteGuidInputs:
       /\ g_remote' = Some(remote_guid)
       /\ g_check' = Some(validate_remote_guid(remote_guid, g_cert))
       /\ Some(remote_guid) # g_remote
  /\ UNCHANGED <<g_cert, g_candidate, g_candidate_hash, g_adjusted>>
  /\ UNCHANGED <<hsVars, chanVars, pureVars>>

NextGuid == DeriveGuid \/ ValidateGuid

SpecGuid == InitGuid /\ [][NextGuid]_vars

(***************************************************************************)
(* The GUID validate_local_identity returned, announced to a participant   *)
(* that validates it against the same certificate: as it was returned, or  *)
(* with one bit of its first 6 bytes inverted on the way.                  *)
(***************************************************************************)
InitGuidBits ==
  /\ HsInit /\ sync_status_channel(Capacity) /\ PureIdle
  /\ g_cert \in {Certificate(h \o <<255, 255>>, "kCA1", "k", TRUE) :
                   h \in [1..6 -> SampleBytes]}
  /\ g_candidate = CandidateGuid("A")
  /\ g_candidate_hash = CandidateGuidHash("A")
  /\ g_adjusted = None
  /\ g_remote = None
  /\ g_check = None

AnnouncedGuidInputs ==
  {Unwrap(g_adjusted)} \cup {FlipBit(Unwrap(g_adjusted), i, b) : i \in 1..6, b \in 0..7}

\* the call of validate_remote_guid on the GUID announced
ValidateAnnouncedGuid ==
  /\ IsSome(g_adjusted)
  /\ g_remote = None
  /\ \E remote_guid \in AnnouncedGuidInputs:
       /\ g_remote' = Some(remote_guid)
       /\ g_check' = Some(validate_remote_guid(remote_guid, g_cert))
  /\ UNCHANGED <<g_cert, g_candidate, g_candidate_hash, g_adjusted>>
  /\ UNCHANGED <<hsVars, chanVars, pureVars>>

NextGuidBits == DeriveGuid \/ ValidateAnnouncedGuid

SpecGuidBits == InitGuidBits /\ [][NextGuidBits]_vars

(***************************************************************************)
(* The status channel, src/dds/statusevents.rs                             *)
(***************************************************************************)
\* the wakers poll_next can be called with
Wakers == {"w1", "w2"}

\* mio_channel::SyncSender::try_send
actual_sender_try_send(queue, receiver, capacity) ==
  IF ~receiver THEN "Disconnected"
  ELSE IF Len(queue) >= capacity THEN "Full"
  ELSE "Ok"

\* mio_channel::Receiver::try_recv
actual_receiver_try_recv(queue, senders) ==
  IF queue # <<>> THEN "Ok"
  ELSE IF senders = 0 THEN "Disconnected"
  ELSE "Empty"

\* w.as_ref().map(|w| w.wake_by_ref())
wake_by_ref(w, woken) == woken \cup {w[i] : i \in DOMAIN w}

\* StatusChannelSender::try_send, with the waker lock held from the first
\* line to the return: the queue, the signal, the waker, the wakers woken
\* and the result
try_send_drop_oldest(t, queue, signal, waker, woken, receiver, capacity) ==
  LET sent == actual_sender_try_send(queue, receiver, capacity)
  IN  IF sent = "Disconnected"
      THEN [queue |-> queue, signal |-> signal, waker |-> waker, woken |-> woken,
            result |-> "Err(Disconnected)"]
      ELSE [queue |-> IF sent = "Ok" \/ queue = <<>> THEN Append(queue, t)
                      ELSE Append(Tail(queue), t),
            signal |-> TRUE, waker |-> None, woken |-> wake_by_ref(waker, woken),
            result |-> "Ok(())"]

try_send_push_front(t, queue, signal, waker, woken, receiver, capacity) ==
  LET sent == actual_sender_try_send(queue, receiver, capacity)
  IN  IF sent = "Ok"
      THEN [queue |-> <<t>> \o queue, signal |-> TRUE, waker |-> None,
            woken |-> wake_by_ref(waker, woken), result |-> "Ok(())"]
      ELSE IF sent = "Full"
      THEN [queue |-> queue, signal |-> TRUE, waker |-> None,
            woken |-> wake_by_ref(waker, woken), result |-> "Ok(())"]
      ELSE [queue |-> queue, signal |-> signal, waker |-> waker, woken |-> woken,
            result |-> "Err(Disconnected)"]

try_send_result(t, queue, signal, waker, woken, receiver, capacity) ==
  LET sent == actual_sender_try_send(queue, receiver, capacity)
  IN  IF sent = "Ok"
      THEN [queue |-> Append(queue, t), signal |-> TRUE, waker |-> None,
            woken |-> wake_by_ref(waker, woken), result |-> "Ok(())"]
      ELSE IF sent = "Full"
      THEN [queue |-> queue, signal |-> TRUE, waker |-> None,
            woken |-> wake_by_ref(waker, woken), result |-> "Ok(())"]
      ELSE [queue |-> queue, signal |-> signal, waker |-> waker, woken |-> woken,
            result |-> "Err(Disconnected)"]

try_send ==
  /\ ch_senders > 0
  /\ ch_sent < MaxItems
  /\ LET t == ch_sent + 1
         r == try_send_result(t, ch_queue, ch_signal, ch_waker, ch_woken, ch_receiver,
                              ch_capacity)
     IN  /\ ch_queue' = r.queue
         /\ ch_signal' = r.signal
         /\ ch_waker' = r.waker
         /\ ch_woken' = r.woken
         /\ ch_sent' = t
         /\ ch_ret' = ChanRet("try_send", r.result, t, ch_queue, ch_waker, ch_receiver)
  /\ UNCHANGED <<ch_senders, ch_receiver, ch_terminated, ch_pc>>
  /\ ch_full' = IF actual_sender_try_send(ch_queue, ch_receiver, ch_capacity) = "Full"
                THEN ch_full \cup {ch_sent + 1} ELSE ch_full
  /\ UNCHANGED ch_received
  /\ UNCHANGED <<hsVars, guidVars, pureVars, ch_capacity, ch_stream, ch_at_drop>>

\* StatusChannelReceiver::try_recv, first line: self.signal_receiver.drain()
try_recv_drain ==
  /\ ch_receiver
  /\ ch_pc = "idle"
  /\ ch_signal' = FALSE
  /\ ch_pc' = "drained"
  /\ ch_ret' = ChanRet("try_recv", "", 0, ch_queue, ch_waker, ch_receiver)
  /\ UNCHANGED <<ch_queue, ch_waker, ch_woken, ch_senders, ch_receiver,
                 ch_terminated, ch_sent>>
  /\ UNCHANGED <<ch_received, ch_full>>
  /\ UNCHANGED <<hsVars, guidVars, pureVars, ch_capacity, ch_stream, ch_at_drop>>

\* StatusChannelReceiver::try_recv, second line
try_recv ==
  /\ ch_receiver
  /\ ch_pc = "drained"
  /\ LET received == actual_receiver_try_recv(ch_queue, ch_senders)
     IN  /\ ch_queue' = IF received = "Ok" THEN Tail(ch_queue) ELSE ch_queue
         /\ ch_ret' = ChanRet("try_recv",
                              IF received = "Ok" THEN "Ok" ELSE "Err(" \o received \o ")",
                              IF received = "Ok" THEN Head(ch_queue) ELSE 0,
                              ch_queue, ch_waker, ch_receiver)
  /\ ch_pc' = "idle"
  /\ UNCHANGED <<ch_signal, ch_waker, ch_woken, ch_senders, ch_receiver,
                 ch_terminated, ch_sent>>
  /\ ch_received' = IF ch_queue # <<>> THEN Append(ch_received, Head(ch_queue))
                    ELSE ch_received
  /\ UNCHANGED ch_full
  /\ UNCHANGED <<hsVars, guidVars, pureVars, ch_capacity, ch_stream, ch_at_drop>>

\* StatusReceiverStream::poll_next, the match on what try_recv returned: the
\* waker, the terminated flag and the Poll value
poll_next_ready_none_on_empty(received, waker, terminated, cx_waker) ==
  [waker |-> waker,
   terminated |-> IF received # "Ok" THEN TRUE ELSE terminated,
   result |-> IF received = "Ok" THEN "Ready(Some)" ELSE "Ready(None)"]

poll_next_terminated_not_stored(received, waker, terminated, cx_waker) ==
  IF received = "Empty"
  THEN [waker |-> Some(cx_waker), terminated |-> terminated, result |-> "Pending"]
  ELSE IF received = "Disconnected"
  THEN [waker |-> waker, terminated |-> terminated, result |-> "Ready(None)"]
  ELSE [waker |-> waker, terminated |-> terminated, result |-> "Ready(Some)"]

poll_next_result(received, waker, terminated, cx_waker) ==
  IF received = "Empty"
  THEN [waker |-> Some(cx_waker), terminated |-> terminated, result |-> "Pending"]
  ELSE IF received = "Disconnected"
  THEN [waker |-> waker, terminated |-> TRUE, result |-> "Ready(None)"]
  ELSE [waker |-> waker, terminated |-> terminated, result |-> "Ready(Some)"]

\* StatusReceiverStream::poll_next, with the waker lock held from the first
\* line to the return
poll_next ==
  /\ ch_receiver
  /\ ch_stream
  /\ ch_pc = "idle"
  /\ \E cx_waker \in Wakers:
       LET received == actual_receiver_try_recv(ch_queue, ch_senders)
           r == poll_next_result(received, ch_waker, ch_terminated, cx_waker)
       IN  /\ ch_signal' = FALSE
           /\ ch_queue' = IF received = "Ok" THEN Tail(ch_queue) ELSE ch_queue
           /\ ch_waker' = r.waker
           /\ ch_terminated' = r.terminated
           /\ ch_ret' = [ChanRet("poll_next", r.result,
                                 IF received = "Ok" THEN Head(ch_queue) ELSE 0,
                                 ch_queue, ch_waker, ch_receiver)
                           EXCEPT !.cx_waker = Some(cx_waker)]
  /\ UNCHANGED <<ch_woken, ch_senders, ch_receiver, ch_sent, ch_pc>>
  /\ ch_received' = IF ch_queue # <<>> THEN Append(ch_received, Head(ch_queue))
                    ELSE ch_received
  /\ UNCHANGED ch_full
  /\ UNCHANGED <<hsVars, guidVars, pureVars, ch_capacity, ch_stream, ch_at_drop>>

\* FusedStream::is_terminated of a StatusReceiverStream
is_terminated(terminated) == terminated

\* StatusChannelReceiver::as_async_status_stream
as_async_status_stream ==
  /\ ch_receiver
  /\ ~ch_stream
  /\ ch_stream' = TRUE
  /\ ch_terminated' = FALSE
  /\ ch_ret' = ChanRet("as_async_status_stream", "", 0, ch_queue, ch_waker, ch_receiver)
  /\ UNCHANGED <<ch_queue, ch_signal, ch_waker, ch_woken, ch_senders, ch_receiver,
                 ch_sent, ch_pc, ch_received, ch_full, ch_at_drop>>
  /\ UNCHANGED <<hsVars, guidVars, pureVars, ch_capacity>>

\* what the drop of a StatusReceiverStream leaves in the channel: the struct
\* holds a shared reference and a flag and has no Drop implementation
queue_after_stream_drop_discard(queue) == <<>>

queue_after_stream_drop(queue) == queue

\* a StatusReceiverStream goes out of scope
drop_stream ==
  /\ ch_stream
  /\ ch_stream' = FALSE
  /\ ch_terminated' = FALSE
  /\ ch_queue' = queue_after_stream_drop(ch_queue)
  /\ ch_at_drop' = {ch_queue[i] : i \in DOMAIN ch_queue}
  /\ ch_ret' = ChanRet("drop_stream", "", 0, ch_queue, ch_waker, ch_receiver)
  /\ UNCHANGED <<ch_signal, ch_waker, ch_woken, ch_senders, ch_receiver,
                 ch_sent, ch_pc, ch_received, ch_full>>
  /\ UNCHANGED <<hsVars, guidVars, pureVars, ch_capacity>>

\* #[derive(Clone)] on StatusChannelSender
clone_sender ==
  /\ ch_senders > 0
  /\ ch_senders < MaxSenders
  /\ ch_senders' = ch_senders + 1
  /\ ch_ret' = ChanRet("clone", "", 0, ch_queue, ch_waker, ch_receiver)
  /\ UNCHANGED <<ch_queue, ch_signal, ch_waker, ch_woken, ch_receiver,
                 ch_terminated, ch_sent, ch_pc>>
  /\ UNCHANGED <<ch_received, ch_full>>
  /\ UNCHANGED <<hsVars, guidVars, pureVars, ch_capacity, ch_stream, ch_at_drop>>

\* a StatusChannelSender goes out of scope
drop_sender ==
  /\ ch_senders > 0
  /\ ch_senders' = ch_senders - 1
  /\ ch_ret' = ChanRet("drop_sender", "", 0, ch_queue, ch_waker, ch_receiver)
  /\ UNCHANGED <<ch_queue, ch_signal, ch_waker, ch_woken, ch_receiver,
                 ch_terminated, ch_sent, ch_pc>>
  /\ UNCHANGED <<ch_received, ch_full>>
  /\ UNCHANGED <<hsVars, guidVars, pureVars, ch_capacity, ch_stream, ch_at_drop>>

\* the StatusChannelReceiver goes out of scope, which the borrow of a
\* StatusReceiverStream does not allow while the stream exists
drop_receiver ==
  /\ ch_receiver
  /\ ~ch_stream
  /\ ch_pc = "idle"
  /\ ch_receiver' = FALSE
  /\ ch_ret' = ChanRet("drop_receiver", "", 0, ch_queue, ch_waker, ch_receiver)
  /\ UNCHANGED <<ch_queue, ch_signal, ch_waker, ch_woken, ch_senders,
                 ch_terminated, ch_sent, ch_pc>>
  /\ UNCHANGED <<ch_received, ch_full>>
  /\ UNCHANGED <<hsVars, guidVars, pureVars, ch_capacity, ch_stream, ch_at_drop>>

NextChan ==
  \/ try_send
  \/ try_recv_drain
  \/ try_recv
  \/ as_async_status_stream
  \/ poll_next
  \/ drop_stream
  \/ clone_sender
  \/ drop_sender
  \/ drop_receiver

\* the channel is made with one of the capacities
InitChan ==
  /\ HsInit /\ GuidIdle /\ PureIdle
  /\ \E capacity \in Capacities: sync_status_channel(capacity)

SpecChan == InitChan /\ [][NextChan]_vars

(***************************************************************************)
(* The status channel with one thread in try_send and one task in          *)
(* poll_next, each call taken line by line, so that the calls interleave   *)
(* wherever the waker mutex allows it.                                     *)
(***************************************************************************)
\* self.waker.lock().unwrap(): the call returns when the mutex is free
waker_lock_free_always(lock) == TRUE

waker_lock_free(lock) == lock = ""

\* StatusReceiverStream::poll_next, first line: get_waker_update_lock
poll_next_lock ==
  /\ ch_receiver
  /\ ch_stream
  /\ wk_poll.pc = "idle"
  /\ waker_lock_free(wk_lock)
  /\ wk_lock' = "poll_next"
  /\ \E cx_waker \in Wakers:
       wk_poll' = [PollIdle EXCEPT !.pc = "locked", !.cx_waker = cx_waker]
  /\ UNCHANGED <<wk_send, wk_unwoken>>
  /\ UNCHANGED <<hsVars, guidVars, chanVars, uriVars, gapVars, drVars>>

\* StatusReceiverStream::poll_next, self.sync_receiver.try_recv()
poll_next_try_recv ==
  /\ wk_poll.pc = "locked"
  /\ LET received == actual_receiver_try_recv(ch_queue, ch_senders)
     IN  /\ ch_signal' = FALSE
         /\ ch_queue' = IF received = "Ok" THEN Tail(ch_queue) ELSE ch_queue
         /\ ch_received' = IF received = "Ok" THEN Append(ch_received, Head(ch_queue))
                           ELSE ch_received
         /\ wk_poll' = [wk_poll EXCEPT !.pc = "received", !.received = received,
                                       !.item = IF received = "Ok" THEN Head(ch_queue)
                                                ELSE 0,
                                       !.queue_before = ch_queue]
  /\ UNCHANGED <<ch_capacity, ch_waker, ch_woken, ch_senders, ch_receiver, ch_terminated,
                 ch_sent, ch_pc, ch_ret, ch_full, ch_stream, ch_at_drop>>
  /\ UNCHANGED <<wk_lock, wk_send, wk_unwoken>>
  /\ UNCHANGED <<hsVars, guidVars, uriVars, gapVars, drVars>>

\* StatusReceiverStream::poll_next, the match on what try_recv returned, and
\* the return, which releases the mutex
poll_next_match ==
  /\ wk_poll.pc = "received"
  /\ LET r == poll_next_result(wk_poll.received, ch_waker, ch_terminated,
                               wk_poll.cx_waker)
     IN  /\ ch_waker' = r.waker
         /\ ch_terminated' = r.terminated
         /\ ch_ret' = [ChanRet("poll_next", r.result, wk_poll.item,
                               wk_poll.queue_before, ch_waker, ch_receiver)
                         EXCEPT !.cx_waker = Some(wk_poll.cx_waker)]
         /\ wk_unwoken' = IF r.result = "Pending" THEN Some(wk_poll.cx_waker) ELSE None
  /\ wk_poll' = PollIdle
  /\ wk_lock' = ""
  /\ UNCHANGED <<ch_capacity, ch_queue, ch_signal, ch_woken, ch_senders, ch_receiver,
                 ch_sent, ch_pc, ch_received, ch_full, ch_stream, ch_at_drop>>
  /\ UNCHANGED wk_send
  /\ UNCHANGED <<hsVars, guidVars, uriVars, gapVars, drVars>>

\* StatusChannelSender::try_send, first line: self.waker.lock()
try_send_lock ==
  /\ ch_senders > 0
  /\ ch_sent < MaxItems
  /\ wk_send.pc = "idle"
  /\ waker_lock_free(wk_lock)
  /\ wk_lock' = "try_send"
  /\ ch_sent' = ch_sent + 1
  /\ wk_send' = [SendIdle EXCEPT !.pc = "locked", !.t = ch_sent + 1]
  /\ UNCHANGED <<ch_capacity, ch_queue, ch_signal, ch_waker, ch_woken, ch_senders,
                 ch_receiver, ch_terminated, ch_pc, ch_ret, ch_received, ch_full,
                 ch_stream, ch_at_drop>>
  /\ UNCHANGED <<wk_poll, wk_unwoken>>
  /\ UNCHANGED <<hsVars, guidVars, uriVars, gapVars, drVars>>

\* StatusChannelSender::try_send, self.actual_sender.try_send(t)
try_send_send ==
  /\ wk_send.pc = "locked"
  /\ LET r == try_send_result(wk_send.t, ch_queue, ch_signal, ch_waker, ch_woken,
                              ch_receiver, ch_capacity)
     IN  ch_queue' = r.queue
  /\ ch_full' = IF actual_sender_try_send(ch_queue, ch_receiver, ch_capacity) = "Full"
                THEN ch_full \cup {wk_send.t} ELSE ch_full
  /\ wk_send' = [wk_send EXCEPT !.pc = "sent", !.queue_before = ch_queue]
  /\ UNCHANGED <<ch_capacity, ch_signal, ch_waker, ch_woken, ch_senders, ch_receiver,
                 ch_terminated, ch_sent, ch_pc, ch_ret, ch_received, ch_stream,
                 ch_at_drop>>
  /\ UNCHANGED <<wk_lock, wk_poll, wk_unwoken>>
  /\ UNCHANGED <<hsVars, guidVars, uriVars, gapVars, drVars>>

\* StatusChannelSender::try_send, the match on what the send returned: the
\* signal, the wake of the stored waker, its removal, and the return, which
\* releases the mutex
try_send_wake ==
  /\ wk_send.pc = "sent"
  /\ LET r == try_send_result(wk_send.t, wk_send.queue_before, ch_signal, ch_waker, {},
                              ch_receiver, ch_capacity)
     IN  /\ ch_signal' = r.signal
         /\ ch_waker' = r.waker
         /\ ch_woken' = ch_woken \cup r.woken
         /\ ch_ret' = ChanRet("try_send", r.result, wk_send.t, wk_send.queue_before,
                              ch_waker, ch_receiver)
         /\ wk_unwoken' = IF IsSome(wk_unwoken) /\ Unwrap(wk_unwoken) \in r.woken
                          THEN None ELSE wk_unwoken
  /\ wk_send' = SendIdle
  /\ wk_lock' = ""
  /\ UNCHANGED <<ch_capacity, ch_queue, ch_senders, ch_receiver, ch_terminated, ch_sent,
                 ch_pc, ch_received, ch_full, ch_stream, ch_at_drop>>
  /\ UNCHANGED wk_poll
  /\ UNCHANGED <<hsVars, guidVars, uriVars, gapVars, drVars>>

\* a StatusChannelSender other than the one a try_send is borrowing goes out
\* of scope
drop_idle_sender ==
  /\ wk_send.pc = "idle" \/ ch_senders > 1
  /\ drop_sender

NextWake ==
  \/ as_async_status_stream
  \/ poll_next_lock
  \/ poll_next_try_recv
  \/ poll_next_match
  \/ try_send_lock
  \/ try_send_send
  \/ try_send_wake
  \/ clone_sender
  \/ drop_idle_sender

SpecWake == InitChan /\ [][NextWake]_vars

\* poll_next as an executor calls it: on a task that is new, that got Ready
\* from its last poll, or whose waker has been woken since it got Pending
poll_next_woken ==
  /\ wk_unwoken = None
  /\ poll_next_lock

NextWakeLive ==
  \/ as_async_status_stream
  \/ poll_next_woken
  \/ poll_next_try_recv
  \/ poll_next_match
  \/ try_send_lock
  \/ try_send_send
  \/ try_send_wake
  \/ clone_sender
  \/ drop_idle_sender

\* a call that has started returns, and the executor polls a task that is
\* ready to be polled
FairWake == WF_vars(NextWakeLive)

SpecWakeLive == InitChan /\ [][NextWakeLive]_vars /\ FairWake

(***************************************************************************)
(* Configuration URIs: read_uri and read_uri_to_private_key as functions   *)
(* of the uri, of the file system and of the key store.                    *)
(***************************************************************************)
\* bound of the model: the number of pieces a uri is made of
MaxUriLen == 3

\* the pieces a uri is made of: the separator and texts without a separator
UriPieces == {":", "file", "data", "pkcs11", "http", "x"}

UriInputs == UNION {[1..n -> UriPieces] : n \in 0..MaxUriLen}

\* the text of a sequence of pieces
RECURSIVE UriText(_)
UriText(pieces) ==
  IF pieces = <<>> THEN "" ELSE Head(pieces) \o UriText(Tail(pieces))

\* str::split_once(':'): None, or the text before the first ':' and the text
\* after it
split_once(uri) ==
  IF \A i \in DOMAIN uri: uri[i] # ":" THEN None
  ELSE LET first == CHOOSE i \in DOMAIN uri:
                      uri[i] = ":" /\ \A j \in 1..(i - 1): uri[j] # ":"
       IN  Some(<<UriText(SubSeq(uri, 1, first - 1)),
                  UriText(SubSeq(uri, first + 1, Len(uri)))>>)

UriOk(op, bytes) == [op |-> op, ok |-> TRUE, err |-> "", bytes |-> bytes]
UriErr(op, err) == [op |-> op, ok |-> FALSE, err |-> err, bytes |-> ""]

\* std::fs::read(path): the content of the file, or an I/O error
fs_read(path, file_ok) == IF file_ok THEN Some("content of " \o path) ELSE None

\* PrivateKey::from_pem and PrivateKey::from_pkcs11_uri_path_and_query
private_key_from(op, source, key_ok) ==
  IF key_ok THEN UriOk(op, source) ELSE UriErr(op, "PrivateKey")

\* read_uri, the match on uri.split_once(':')
read_uri_result(uri, file_ok) ==
  LET split == split_once(uri)
      scheme == IF IsSome(split) THEN Unwrap(split)[1] ELSE ""
      rest == IF IsSome(split) THEN Unwrap(split)[2] ELSE ""
  IN  IF IsSome(split) /\ scheme = "data" THEN UriOk("read_uri", rest)
      ELSE IF IsSome(split) /\ scheme = "pkcs11" THEN UriErr("read_uri", "Other")
      ELSE IF IsSome(split) /\ scheme = "file"
      THEN IF IsSome(fs_read(rest, file_ok))
           THEN UriOk("read_uri", Unwrap(fs_read(rest, file_ok)))
           ELSE UriErr("read_uri", "Other")
      ELSE UriErr("read_uri", "Parse")

\* read_uri_to_private_key, the match on uri.split_once(':')
read_uri_to_private_key_result(uri, file_ok, key_ok) ==
  LET split == split_once(uri)
      scheme == IF IsSome(split) THEN Unwrap(split)[1] ELSE ""
      rest == IF IsSome(split) THEN Unwrap(split)[2] ELSE ""
      op == "read_uri_to_private_key"
  IN  IF IsSome(split) /\ scheme = "data" THEN private_key_from(op, rest, key_ok)
      ELSE IF IsSome(split) /\ scheme = "pkcs11" THEN private_key_from(op, rest, key_ok)
      ELSE IF IsSome(split) /\ scheme = "file"
      THEN IF IsSome(fs_read(rest, file_ok))
           THEN private_key_from(op, Unwrap(fs_read(rest, file_ok)), key_ok)
           ELSE UriErr(op, "Other")
      ELSE UriErr(op, "Parse")

InitUri ==
  /\ HsInit /\ GuidIdle /\ sync_status_channel(Capacity)
  /\ u_uri \in UriInputs
  /\ u_file_ok \in BOOLEAN
  /\ u_key_ok \in BOOLEAN
  /\ u_ret = NoUriRet
  /\ GapIdle /\ DrIdle /\ WakeIdle

read_uri ==
  /\ u_ret' = read_uri_result(u_uri, u_file_ok)
  /\ UNCHANGED <<u_uri, u_file_ok, u_key_ok>>
  /\ UNCHANGED <<hsVars, guidVars, chanVars, gapVars, drVars, wakeVars>>

read_uri_to_private_key ==
  /\ u_ret' = read_uri_to_private_key_result(u_uri, u_file_ok, u_key_ok)
  /\ UNCHANGED <<u_uri, u_file_ok, u_key_ok>>
  /\ UNCHANGED <<hsVars, guidVars, chanVars, gapVars, drVars, wakeVars>>

NextUri ==
  \/ read_uri
  \/ read_uri_to_private_key

SpecUri == InitUri /\ [][NextUri]_vars

(***************************************************************************)
(* GAP submessage: Gap written and read with speedy, in either endianness  *)
(***************************************************************************)
\* bound of the model: the number of u32 words of a bitmap
MaxBitmapWords == 2

Endianness == {"le", "be"}

\* the u32 and i32 values drawn: each below 2^31 in absolute value
U32Samples == {0, 5, 16909060}
I32Samples == {0, 1, -1}

\* the bytes of a 32 bit integer in two's complement, least significant
\* byte first or last
write_u32(v, endian) ==
  LET le == [i \in 1..4 |-> (v \div (256 ^ (i - 1))) % 256]
  IN  IF endian = "le" THEN le ELSE [i \in 1..4 |-> le[5 - i]]

read_u32(bytes, endian) ==
  LET le == IF endian = "le" THEN bytes ELSE [i \in 1..4 |-> bytes[5 - i]]
  IN  le[1] + 256 * le[2] + 65536 * le[3] + 16777216 * le[4]

read_i32(bytes, endian) ==
  LET le == IF endian = "le" THEN bytes ELSE [i \in 1..4 |-> bytes[5 - i]]
      top == IF le[4] >= 128 THEN le[4] - 256 ELSE le[4]
  IN  le[1] + 256 * le[2] + 65536 * le[3] + 16777216 * top

\* EntityId: the three bytes of the key and the kind, whatever the endianness
write_entity_id(id, endian) == id.entity_key \o <<id.entity_kind>>
read_entity_id(bytes, endian) == EntityId(SubSeq(bytes, 1, 3), bytes[4])

\* SequenceNumber: the high 32 bits, then the low 32 bits
write_sequence_number(sn, endian) ==
  write_u32(sn.high, endian) \o write_u32(sn.low, endian)
read_sequence_number(bytes, endian) ==
  SequenceNumber(read_i32(SubSeq(bytes, 1, 4), endian),
                 read_u32(SubSeq(bytes, 5, 8), endian))

\* the u32 words a bitmap of num_bits bits takes
bitmap_words(num_bits) == (num_bits + 31) \div 32

\* SequenceNumberSet: the base, the number of bits, the words of the bitmap
RECURSIVE write_words(_, _)
write_words(words, endian) ==
  IF words = <<>> THEN <<>>
  ELSE write_u32(Head(words), endian) \o write_words(Tail(words), endian)

write_sequence_number_set(set, endian) ==
  write_sequence_number(set.bitmap_base, endian)
    \o write_u32(set.num_bits, endian)
    \o write_words(set.bitmap, endian)

\* None when the bytes end before the bitmap does or go on after it
read_sequence_number_set(bytes, endian) ==
  IF Len(bytes) < 12 THEN None
  ELSE LET num_bits == read_u32(SubSeq(bytes, 9, 12), endian)
           n == bitmap_words(num_bits)
       IN  IF Len(bytes) # 12 + 4 * n THEN None
           ELSE Some(SequenceNumberSet(
                  read_sequence_number(SubSeq(bytes, 1, 8), endian),
                  num_bits,
                  [i \in 1..n |-> read_u32(SubSeq(bytes, 9 + 4 * i, 12 + 4 * i), endian)]))

\* #[derive(Writable)] on Gap: the fields in the order of their declaration
gap_write_writer_first(gap, endian) ==
  write_entity_id(gap.writer_id, endian)
    \o write_entity_id(gap.reader_id, endian)
    \o write_sequence_number(gap.gap_start, endian)
    \o write_sequence_number_set(gap.gap_list, endian)

gap_write(gap, endian) ==
  write_entity_id(gap.reader_id, endian)
    \o write_entity_id(gap.writer_id, endian)
    \o write_sequence_number(gap.gap_start, endian)
    \o write_sequence_number_set(gap.gap_list, endian)

\* #[derive(Readable)] on Gap: the fields in the order of their declaration
gap_read(bytes, endian) ==
  IF Len(bytes) < 16 THEN None
  ELSE LET gap_list == read_sequence_number_set(SubSeq(bytes, 17, Len(bytes)), endian)
       IN  IF gap_list = None THEN None
           ELSE Some(Gap(read_entity_id(SubSeq(bytes, 1, 4), endian),
                         read_entity_id(SubSeq(bytes, 5, 8), endian),
                         read_sequence_number(SubSeq(bytes, 9, 16), endian),
                         Unwrap(gap_list)))

\* the Gap of the serialization test and the bytes the test expects
TestGap ==
  Gap(SEDP_BUILTIN_PUBLICATIONS_READER, SEDP_BUILTIN_PUBLICATIONS_WRITER,
      SequenceNumber(0, 42), new_empty(SequenceNumber(0, 7)))
TestGapLe ==
  <<0, 0, 3, 199,  0, 0, 3, 194,  0, 0, 0, 0,  42, 0, 0, 0,
    0, 0, 0, 0,  7, 0, 0, 0,  0, 0, 0, 0>>
TestGapBe ==
  <<0, 0, 3, 199,  0, 0, 3, 194,  0, 0, 0, 0,  0, 0, 0, 42,
    0, 0, 0, 0,  0, 0, 0, 7,  0, 0, 0, 0>>

\* the Gap values drawn
EntityIdInputs == {SEDP_BUILTIN_PUBLICATIONS_READER, SEDP_BUILTIN_PUBLICATIONS_WRITER}
SequenceNumberInputs ==
  {SequenceNumber(0, 42), SequenceNumber(0, 7), SequenceNumber(1, 16909060),
   SequenceNumber(-1, 0)}
BitmapInputs(n) == [1..n -> U32Samples]
SequenceNumberSetInputs ==
  {SequenceNumberSet(base, num_bits, bitmap) :
     base \in {SequenceNumber(0, 7), SequenceNumber(1, 16909060)},
     num_bits \in {0},
     bitmap \in BitmapInputs(0)}
  \cup UNION {{SequenceNumberSet(SequenceNumber(0, 7), num_bits, bitmap) :
                 num_bits \in {32 * n - 31, 32 * n},
                 bitmap \in BitmapInputs(n)} : n \in 1..MaxBitmapWords}

InitGap ==
  /\ HsInit /\ GuidIdle /\ sync_status_channel(Capacity) /\ UriIdle /\ DrIdle
  /\ WakeIdle
  /\ gp_gap \in {Gap(r, w, s, l) : r \in EntityIdInputs, w \in EntityIdInputs,
                                   s \in SequenceNumberInputs,
                                   l \in SequenceNumberSetInputs}
  /\ gp_endian \in Endianness
  /\ gp_bytes = None
  /\ gp_decoded = None
  /\ gp_reencoded = None

\* gap.write_to_vec_with_ctx(endianness)
write_to_vec ==
  /\ gp_bytes = None
  /\ gp_bytes' = Some(gap_write(gp_gap, gp_endian))
  /\ UNCHANGED <<gp_gap, gp_endian, gp_decoded, gp_reencoded>>
  /\ UNCHANGED <<hsVars, guidVars, chanVars, uriVars, drVars, wakeVars>>

\* Gap::read_from_buffer_with_ctx(endianness, bytes)
read_from_buffer ==
  /\ IsSome(gp_bytes)
  /\ gp_decoded = None
  /\ gp_decoded' = Some(gap_read(Unwrap(gp_bytes), gp_endian))
  /\ UNCHANGED <<gp_gap, gp_endian, gp_bytes, gp_reencoded>>
  /\ UNCHANGED <<hsVars, guidVars, chanVars, uriVars, drVars, wakeVars>>

\* the value read is written again
write_decoded_to_vec ==
  /\ IsSome(gp_decoded)
  /\ IsSome(Unwrap(gp_decoded))
  /\ gp_reencoded = None
  /\ gp_reencoded' = Some(gap_write(Unwrap(Unwrap(gp_decoded)), gp_endian))
  /\ UNCHANGED <<gp_gap, gp_endian, gp_bytes, gp_decoded>>
  /\ UNCHANGED <<hsVars, guidVars, chanVars, uriVars, drVars, wakeVars>>

NextGap ==
  \/ write_to_vec
  \/ read_from_buffer
  \/ write_decoded_to_vec

SpecGap == InitGap /\ [][NextGap]_vars

(***************************************************************************)
(* The no_key DataReader over the keyed DataReader it wraps                *)
(***************************************************************************)
\* bound of the model: the samples the reader receives
MaxSamples == 3

usize_MAX == 2147483647

\* Sample::Value and Sample::Dispose: a writer that takes the topic for a
\* keyed one sends a dispose
SampleKinds == {"Value", "Dispose"}

ReadConditions == {"not_read", "any", "read"}

\* ReadCondition applied to a sample of the cache
matches(sample, read_condition) ==
  IF read_condition = "not_read" THEN ~sample.read
  ELSE IF read_condition = "read" THEN sample.read
  ELSE TRUE

\* the positions of the first max_samples samples the condition selects
select_for_access(cache, max_samples, read_condition) ==
  LET all == SelectSeq([i \in 1..Len(cache) |-> i],
                       LAMBDA i: matches(cache[i], read_condition))
  IN  IF Len(all) <= max_samples THEN all ELSE SubSeq(all, 1, max_samples)

InSeq(x, seq) == \E i \in DOMAIN seq: seq[i] = x

\* with_key DataReader::read: the samples selected, which become read
keyed_read(cache, max_samples, read_condition) ==
  LET selected == select_for_access(cache, max_samples, read_condition)
  IN  [samples |-> [k \in 1..Len(selected) |-> cache[selected[k]]],
       cache |-> [i \in 1..Len(cache) |->
                   IF InSeq(i, selected) THEN [cache[i] EXCEPT !.read = TRUE]
                   ELSE cache[i]]]

\* with_key DataReader::take: the samples selected, which leave the cache
keyed_take(cache, max_samples, read_condition) ==
  LET selected == select_for_access(cache, max_samples, read_condition)
      kept == SelectSeq([i \in 1..Len(cache) |-> i], LAMBDA i: ~InSeq(i, selected))
  IN  [samples |-> [k \in 1..Len(selected) |-> cache[selected[k]]],
       cache |-> [k \in 1..Len(kept) |-> cache[kept[k]]]]

\* DataSample::from_with_key over the samples: a dispose gives None
from_with_key(samples) == SelectSeq(samples, LAMBDA s: s.kind = "Value")

Ids(samples) == [k \in 1..Len(samples) |-> samples[k].id]

\* DataReader::read
read_result(cache, max_samples, read_condition) ==
  LET values == keyed_read(cache, max_samples, read_condition)
  IN  [result |-> from_with_key(values.samples), cache |-> values.cache]

\* DataReader::take
take_result(cache, max_samples, read_condition) ==
  LET values == keyed_take(cache, max_samples, read_condition)
  IN  [result |-> from_with_key(values.samples), cache |-> values.cache]

\* DataReader::into_iterator: the samples taken, as the items of the iterator
into_iterator_by_read(cache) == read_result(cache, usize_MAX, "not_read")

into_iterator_result(cache) == take_result(cache, usize_MAX, "not_read")

\* DataReader::into_conditional_iterator
into_conditional_iterator_result(cache, read_condition) ==
  take_result(cache, usize_MAX, read_condition)

\* Vec::pop as an Option
pop(ds) == IF ds = <<>> THEN None ELSE Some(ds[Len(ds)])

\* DataReader::read_next_sample
read_next_sample_result(cache) ==
  LET ds == read_result(cache, 1, "not_read")
  IN  [result |-> pop(ds.result), cache |-> ds.cache]

\* DataReader::take_next_sample
take_next_sample_result(cache) ==
  LET ds == take_result(cache, 1, "not_read")
  IN  [result |-> pop(ds.result), cache |-> ds.cache]

DrRet(op, result) ==
  [op |-> op, result |-> Ids(result), cache_before |-> dr_cache, read_condition |-> ""]

InitReader ==
  /\ HsInit /\ GuidIdle /\ sync_status_channel(Capacity) /\ UriIdle /\ GapIdle
  /\ DrIdle /\ WakeIdle

\* the keyed DataReader receives a sample from a matched writer
receive_sample ==
  /\ dr_received < MaxSamples
  /\ \E kind \in SampleKinds:
       dr_cache' = Append(dr_cache, [id |-> dr_received + 1, kind |-> kind, read |-> FALSE])
  /\ dr_received' = dr_received + 1
  /\ dr_ret' = DrRet("receive", <<>>)
  /\ UNCHANGED <<dr_iter, dr_provided>>
  /\ UNCHANGED <<hsVars, guidVars, chanVars, uriVars, gapVars, wakeVars>>

read ==
  /\ \E max_samples \in {1, 2, usize_MAX}, read_condition \in ReadConditions:
       LET r == read_result(dr_cache, max_samples, read_condition)
       IN  /\ dr_cache' = r.cache
           /\ dr_ret' = DrRet("read", r.result)
  /\ UNCHANGED <<dr_received, dr_iter, dr_provided>>
  /\ UNCHANGED <<hsVars, guidVars, chanVars, uriVars, gapVars, wakeVars>>

take ==
  /\ \E max_samples \in {1, 2, usize_MAX}, read_condition \in ReadConditions:
       LET r == take_result(dr_cache, max_samples, read_condition)
       IN  /\ dr_cache' = r.cache
           /\ dr_ret' = DrRet("take", r.result)
  /\ UNCHANGED <<dr_received, dr_iter, dr_provided>>
  /\ UNCHANGED <<hsVars, guidVars, chanVars, uriVars, gapVars, wakeVars>>

read_next_sample ==
  /\ LET r == read_next_sample_result(dr_cache)
     IN  /\ dr_cache' = r.cache
         /\ dr_ret' = DrRet("read_next_sample", r.result)
  /\ UNCHANGED <<dr_received, dr_iter, dr_provided>>
  /\ UNCHANGED <<hsVars, guidVars, chanVars, uriVars, gapVars, wakeVars>>

take_next_sample ==
  /\ LET r == take_next_sample_result(dr_cache)
     IN  /\ dr_cache' = r.cache
         /\ dr_ret' = DrRet("take_next_sample", r.result)
  /\ UNCHANGED <<dr_received, dr_iter, dr_provided>>
  /\ UNCHANGED <<hsVars, guidVars, chanVars, uriVars, gapVars, wakeVars>>

\* into_iterator: the iterator owns the samples taken
into_iterator ==
  /\ dr_iter = None
  /\ LET r == into_iterator_result(dr_cache)
     IN  /\ dr_cache' = r.cache
         /\ dr_iter' = Some(Ids(r.result))
         /\ dr_provided' = dr_provided \cup {r.result[k].id : k \in DOMAIN r.result}
         /\ dr_ret' = [DrRet("into_iterator", r.result) EXCEPT !.read_condition = "not_read"]
  /\ UNCHANGED dr_received
  /\ UNCHANGED <<hsVars, guidVars, chanVars, uriVars, gapVars, wakeVars>>

into_conditional_iterator ==
  /\ dr_iter = None
  /\ \E read_condition \in ReadConditions:
       LET r == into_conditional_iterator_result(dr_cache, read_condition)
       IN  /\ dr_cache' = r.cache
           /\ dr_iter' = Some(Ids(r.result))
           /\ dr_provided' = dr_provided \cup {r.result[k].id : k \in DOMAIN r.result}
           /\ dr_ret' = [DrRet("into_conditional_iterator", r.result)
                           EXCEPT !.read_condition = read_condition]
  /\ UNCHANGED dr_received
  /\ UNCHANGED <<hsVars, guidVars, chanVars, uriVars, gapVars, wakeVars>>

\* Iterator::next on the iterator returned
iterator_next ==
  /\ IsSome(dr_iter)
  /\ Unwrap(dr_iter) # <<>>
  /\ dr_iter' = Some(Tail(Unwrap(dr_iter)))
  /\ dr_ret' = [DrRet("next", <<>>) EXCEPT !.result = <<Head(Unwrap(dr_iter))>>]
  /\ UNCHANGED <<dr_cache, dr_received, dr_provided>>
  /\ UNCHANGED <<hsVars, guidVars, chanVars, uriVars, gapVars, wakeVars>>

\* the iterator goes out of scope, whatever is left in it
iterator_drop ==
  /\ IsSome(dr_iter)
  /\ dr_iter' = None
  /\ dr_ret' = DrRet("drop", <<>>)
  /\ UNCHANGED <<dr_cache, dr_received, dr_provided>>
  /\ UNCHANGED <<hsVars, guidVars, chanVars, uriVars, gapVars, wakeVars>>

NextReader ==
  \/ receive_sample
  \/ read
  \/ take
  \/ read_next_sample
  \/ take_next_sample
  \/ into_iterator
  \/ into_conditional_iterator
  \/ iterator_next
  \/ iterator_drop

SpecReader == InitReader /\ [][NextReader]_vars

(***************************************************************************)
(* Properties of the handshake                                             *)
(***************************************************************************)
\* the entries p keeps for remote participants: the entry at the local
\* identity handle is p's own
RemoteHandles(p) ==
  IF local_participant_info[p] = None THEN {}
  ELSE (DOMAIN remote_participant_infos[p])
         \ {Unwrap(local_participant_info[p]).identity_handle}

HandshakeStateOf(p, h) == remote_participant_infos[p][h].handshake_state

\* a is before b in the lexicographic order of byte strings of one length
PrefixLess(a, b) ==
  \E i \in 1..Len(a): a[i] < b[i] /\ \A j \in 1..(i - 1): a[j] = b[j]

\* the entry the last call worked on, and its handshake state now
RetEntry == remote_participant_infos[ret.who][ret.identity_handle]

\* C1: when the initiator's entry and the responder's entry of one handshake
\* run are both Completed*, get_shared_secret returns the same shared secret
\* on the initiator and on the responder.
C1_SameSharedSecret ==
  \A p \in Participants:
    \A hi \in RemoteHandles(p), hr \in RemoteHandles(Other(p)):
      LET si == HandshakeStateOf(p, hi)
          sr == HandshakeStateOf(Other(p), hr)
      IN  (/\ si.tag = "CompletedWithFinalMessageSent"
           /\ sr.tag = "CompletedWithFinalMessageReceived"
           /\ si.session = sr.session)
          => Unwrap(get_shared_secret_result(si)).shared_secret
               = Unwrap(get_shared_secret_result(sr)).shared_secret

\* both sides of one run are Completed* and get_shared_secret has just
\* returned the secret of the run to one of them
C1_Witness ==
  \E p \in Participants:
    \E hi \in RemoteHandles(p), hr \in RemoteHandles(Other(p)):
      /\ HandshakeStateOf(p, hi).tag = "CompletedWithFinalMessageSent"
      /\ HandshakeStateOf(Other(p), hr).tag = "CompletedWithFinalMessageReceived"
      /\ HandshakeStateOf(p, hi).session = HandshakeStateOf(Other(p), hr).session
      /\ ret.op = "get_shared_secret" /\ ret.ok
      /\ ret.who = p /\ ret.identity_handle = hi
      /\ Unwrap(ret.secret).shared_secret = HandshakeStateOf(Other(p), hr).shared_secret

\* C2: when validate_remote_identity succeeds, a local prefix smaller than the
\* remote prefix gives the state PendingRequestSend and the outcome
\* PendingHandshakeRequest, a greater one gives PendingRequestMessage and
\* PendingHandshakeMessage.
C2_RoleByPrefixOrder ==
  (ret.op = "validate_remote_identity" /\ ret.ok) =>
    LET local_prefix == Unwrap(local_participant_info[ret.who]).guid.prefix
        remote_prefix == RetEntry.guidp
    IN  /\ PrefixLess(local_prefix, remote_prefix) =>
             /\ RetEntry.handshake_state = PendingRequestSend
             /\ ret.outcome = "PendingHandshakeRequest"
        /\ PrefixLess(remote_prefix, local_prefix) =>
             /\ RetEntry.handshake_state = PendingRequestMessage
             /\ ret.outcome = "PendingHandshakeMessage"
        /\ PrefixLess(local_prefix, remote_prefix) \/ PrefixLess(remote_prefix, local_prefix)

\* validate_remote_identity has returned for a greater remote prefix whose
\* first bytes agree with the local one
C2_Witness ==
  /\ ret.op = "validate_remote_identity" /\ ret.ok
  /\ ret.outcome = "PendingHandshakeRequest"
  /\ PrefixLess(Unwrap(local_participant_info[ret.who]).guid.prefix, RetEntry.guidp)
  /\ RetEntry.guidp[1] = Unwrap(local_participant_info[ret.who]).guid.prefix[1]

\* C3: once A and B have each validated the other's identity, exactly one of
\* them was made the initiator (PendingRequestSend) and the other the
\* responder (PendingRequestMessage).
C3_OneInitiatorOneResponder ==
  \A hA \in RemoteHandles("A"), hB \in RemoteHandles("B"):
    LET eA == remote_participant_infos["A"][hA]
        eB == remote_participant_infos["B"][hB]
        prefixA == Unwrap(local_participant_info["A"]).guid.prefix
        prefixB == Unwrap(local_participant_info["B"]).guid.prefix
    IN  (eA.guidp = prefixB /\ eB.guidp = prefixA /\ prefixA # prefixB) =>
          \/ /\ eA.validated_as = PendingRequestSend
             /\ eB.validated_as = PendingRequestMessage
          \/ /\ eA.validated_as = PendingRequestMessage
             /\ eB.validated_as = PendingRequestSend

\* both have validated the other, and B is the initiator
C3_Witness ==
  \E hA \in RemoteHandles("A"), hB \in RemoteHandles("B"):
    /\ remote_participant_infos["A"][hA].guidp = Unwrap(local_participant_info["B"]).guid.prefix
    /\ remote_participant_infos["B"][hB].guidp = Unwrap(local_participant_info["A"]).guid.prefix
    /\ remote_participant_infos["B"][hB].validated_as = PendingRequestSend
    /\ remote_participant_infos["A"][hA].validated_as = PendingRequestMessage

\* C4: a successful begin_handshake_request takes PendingRequestSend to
\* PendingReplyMessage and returns PendingHandshakeMessage with a request
\* token; a successful begin_handshake_reply takes PendingRequestMessage to
\* PendingFinalMessage and returns PendingHandshakeMessage with a reply token;
\* a successful process_handshake takes PendingReplyMessage to
\* CompletedWithFinalMessageSent with OkFinalMessage and a final token, or
\* PendingFinalMessage to CompletedWithFinalMessageReceived with Ok and no
\* token; the other successful calls leave the handshake state as it was.
C4_ListedTransitions ==
  ret.ok =>
    /\ ret.op = "begin_handshake_request" =>
         /\ ret.before.tag = "PendingRequestSend"
         /\ RetEntry.handshake_state.tag = "PendingReplyMessage"
         /\ ret.outcome = "PendingHandshakeMessage"
         /\ IsSome(ret.token)
         /\ Unwrap(ret.token).class_id = HANDSHAKE_REQUEST_CLASS_ID
    /\ ret.op = "begin_handshake_reply" =>
         /\ ret.before.tag = "PendingRequestMessage"
         /\ RetEntry.handshake_state.tag = "PendingFinalMessage"
         /\ ret.outcome = "PendingHandshakeMessage"
         /\ IsSome(ret.token)
         /\ Unwrap(ret.token).class_id = HANDSHAKE_REPLY_CLASS_ID
    /\ ret.op = "process_handshake" =>
         \/ /\ ret.before.tag = "PendingReplyMessage"
            /\ RetEntry.handshake_state.tag = "CompletedWithFinalMessageSent"
            /\ ret.outcome = "OkFinalMessage"
            /\ IsSome(ret.token)
            /\ Unwrap(ret.token).class_id = HANDSHAKE_FINAL_CLASS_ID
         \/ /\ ret.before.tag = "PendingFinalMessage"
            /\ RetEntry.handshake_state.tag = "CompletedWithFinalMessageReceived"
            /\ ret.outcome = "Ok"
            /\ ret.token = None
    /\ ret.op = "get_shared_secret" => RetEntry.handshake_state = ret.before

\* process_handshake has just completed the responder's side
C4_Witness ==
  /\ ret.op = "process_handshake" /\ ret.ok
  /\ ret.before.tag = "PendingFinalMessage"
  /\ RetEntry.handshake_state.tag = "CompletedWithFinalMessageReceived"

\* the certificate is signed by the identity CA the participant is configured with
SignedByLocalCA(p, cert) ==
  cert.issuer = Unwrap(local_participant_info[p]).identity_ca.key

\* C5: a remote participant's entry is Completed* only if the certificate it
\* presented is signed by the local identity CA, and a request or reply whose
\* certificate is signed by another CA is answered with an error, leaves no
\* token and no Completed* state.
C5_CompletedOnlyIfCertVerified ==
  /\ \A p \in Participants: \A h \in RemoteHandles(p):
       HandshakeStateOf(p, h).tag \in CompletedTags =>
         /\ IsSome(remote_participant_infos[p][h].identity_certificate_opt)
         /\ SignedByLocalCA(p, Unwrap(remote_participant_infos[p][h].identity_certificate_opt))
  /\ (/\ ret.op \in {"begin_handshake_reply", "process_handshake"}
      /\ ret.before.tag \in {"PendingRequestMessage", "PendingReplyMessage"}
      /\ IsSome(Unwrap(ret.msg).c_id)
      /\ ~SignedByLocalCA(ret.who, Unwrap(Unwrap(ret.msg).c_id)))
     => /\ ~ret.ok
        /\ ret.token = None
        /\ RetEntry.handshake_state.tag \notin CompletedTags

\* the initiator has just rejected a reply that carries a certificate of
\* another CA and a signature that fits that certificate
C5_Witness ==
  /\ ret.op = "process_handshake" /\ ~ret.ok
  /\ ret.before.tag = "PendingReplyMessage"
  /\ extract_reply(Unwrap(ret.msg))
  /\ ~SignedByLocalCA(ret.who, Unwrap(Unwrap(ret.msg).c_id))
  /\ Unwrap(Unwrap(ret.msg).signature).signer = Unwrap(Unwrap(ret.msg).c_id).key

\* C6: when process_handshake returns, the stored state is the state held
\* before the call if it failed, and the Completed* successor if it succeeded.
C6_PlaceholderOverwritten ==
  (ret.op = "process_handshake" /\ ret.identity_handle # 0) =>
    IF ret.ok
    THEN RetEntry.handshake_state.tag \in CompletedTags
    ELSE RetEntry.handshake_state = ret.before

\* the 6 bytes the subject name hash of a certificate gives, by arithmetic on
\* the bytes
DerivedGuidStart(cert) ==
  LET h == cert.subject_name_der_hash
  IN  [i \in 1..6 |-> IF i = 1 THEN 128 + (h[1] \div 2)
                      ELSE 128 * (h[i - 1] % 2) + (h[i] \div 2)]

\* the GUID a message announces starts with the bytes its certificate gives
GuidMatchesCert(msg) ==
  SubSeq(Unwrap(msg.c_pdata).participant_guid.prefix, 1, 6)
    = DerivedGuidStart(Unwrap(msg.c_id))

\* C9: a request or reply is accepted only if the first 6 bytes of the GUID
\* prefix in its participant data are the bytes derived from the subject name
\* of its certificate; a call that fails on that check returns no token, does
\* not advance the handshake state, and was given a GUID that does not match.
C9_GuidMismatchAborts ==
  /\ (/\ ret.op \in {"begin_handshake_reply", "process_handshake"}
      /\ ret.ok
      /\ ret.before.tag \in {"PendingRequestMessage", "PendingReplyMessage"})
     => GuidMatchesCert(Unwrap(ret.msg))
  /\ ret.err = "Remote GUID does not comply with the spec"
     => /\ ~GuidMatchesCert(Unwrap(ret.msg))
        /\ ret.token = None
        /\ RetEntry.handshake_state.tag \notin
             {"PendingFinalMessage", "CompletedWithFinalMessageSent"}

\* begin_handshake_reply has just refused a request that announces the
\* candidate GUID instead of the one derived from the certificate
C9_Witness ==
  /\ ret.op = "begin_handshake_reply"
  /\ ret.err = "Remote GUID does not comply with the spec"
  /\ Unwrap(Unwrap(ret.msg).c_pdata).participant_guid = CandidateGuid(Other(ret.who))
  /\ RetEntry.handshake_state = PendingRequestMessage

(***************************************************************************)
(* Liveness of the handshake                                               *)
(***************************************************************************)
\* both participants hold an identity, under the same identity CA
SameIdentityCA ==
  /\ \A p \in Participants: local_participant_info[p] # None
  /\ Unwrap(local_participant_info["A"]).identity_ca
       = Unwrap(local_participant_info["B"]).identity_ca

\* the initiator holds CompletedWithFinalMessageSent for the responder, and
\* the responder CompletedWithFinalMessageReceived for the initiator
HandshakeCompleted ==
  \E p \in Participants:
    \E hi \in RemoteHandles(p), hr \in RemoteHandles(Other(p)):
      /\ HandshakeStateOf(p, hi).tag = "CompletedWithFinalMessageSent"
      /\ HandshakeStateOf(Other(p), hr).tag = "CompletedWithFinalMessageReceived"

\* C7: when both participants hold certificates of the same identity CA,
\* announce the GUIDs derived from them and every token is delivered as it
\* was sent, the initiator reaches CompletedWithFinalMessageSent and the
\* responder reaches CompletedWithFinalMessageReceived.
C7_HandshakeCompletes == SameIdentityCA ~> HandshakeCompleted

\* the handshake of two participants of one CA has completed, B as initiator
C7_Witness ==
  /\ SameIdentityCA
  /\ \E hi \in RemoteHandles("B"), hr \in RemoteHandles("A"):
       /\ HandshakeStateOf("B", hi).tag = "CompletedWithFinalMessageSent"
       /\ HandshakeStateOf("A", hr).tag = "CompletedWithFinalMessageReceived"
  /\ Idle

(***************************************************************************)
(* Properties of the GUID derivation                                       *)
(***************************************************************************)
\* C8: the first 6 bytes of the adjusted GUID prefix are the big-endian u64 of
\* the first 8 hash bytes, shifted right by one bit, with the top bit set,
\* cut to its 6 most significant bytes; the top bit of the prefix is 1; the
\* other 6 bytes are the first 6 bytes of the hash of the candidate GUID; the
\* entity id is the candidate's.
C8_AdjustedGuid ==
  IsSome(g_adjusted) =>
    LET guid == Unwrap(g_adjusted)
        h == g_cert.subject_name_der_hash
    IN  /\ Len(guid.prefix) = 12
        /\ guid.prefix[1] = 128 + (h[1] \div 2)
        /\ \A i \in 2..6: guid.prefix[i] = 128 * (h[i - 1] % 2) + (h[i] \div 2)
        /\ guid.prefix[1] >= 128
        /\ \A i \in 1..6: guid.prefix[6 + i] = g_candidate_hash[i]
        /\ guid.entity_id = g_candidate.entity_id

\* a GUID derived from a hash whose first byte has the top and the bottom bit
\* set, so that a bit is carried into the second byte
C8_Witness ==
  /\ IsSome(g_adjusted)
  /\ g_cert.subject_name_der_hash[1] = 129
  /\ g_cert.subject_name_der_hash[2] = 0
  /\ Unwrap(g_adjusted).prefix[2] = 128
  /\ g_candidate = CandidateGuid("B")

(***************************************************************************)
(* Properties of the status channel                                        *)
(***************************************************************************)
\* C10: try_send on a full channel returns Ok(()), leaves the queue as it
\* was, without the new item, leaves the signal set, takes the stored waker
\* and wakes it; and try_send can be called whatever the queue holds.
C10_FullChannelDropsNewest ==
  /\ (/\ ch_ret.op = "try_send"
      /\ ch_ret.receiver_before
      /\ Len(ch_ret.queue_before) = ch_capacity)
     => /\ ch_ret.result = "Ok(())"
        /\ ch_queue = ch_ret.queue_before
        /\ \A i \in DOMAIN ch_queue: ch_queue[i] # ch_ret.item
        /\ ch_signal
        /\ ch_waker = None
        /\ IsSome(ch_ret.waker_before) => Unwrap(ch_ret.waker_before) \in ch_woken
  /\ (ch_senders > 0 /\ ch_sent < MaxItems) => ENABLED try_send

\* try_send has just found the channel full while a consumer was waiting
C10_Witness ==
  /\ ch_ret.op = "try_send"
  /\ ch_ret.receiver_before
  /\ Len(ch_ret.queue_before) = ch_capacity
  /\ IsSome(ch_ret.waker_before)
  /\ Unwrap(ch_ret.waker_before) \in ch_woken

\* C19: a request begin_handshake_request returns proposes ECDH, and the
\* initiator waits for the reply with an ECDH key pair; begin_handshake_reply
\* succeeds only on a request that names ECDH or MODP-DH, and then names the
\* algorithm of the request in its reply and keeps a key pair of that
\* algorithm; a request that fails on the algorithm names neither; a reply
\* that names another algorithm than the initiator proposed is refused by
\* process_handshake, which leaves no Completed state.
C19_KeyAgreementNegotiation ==
  /\ (ret.op = "begin_handshake_request" /\ ret.ok) =>
       /\ Unwrap(ret.token).c_kagree_algo = Some(ECDH_KAGREE_ALGO_NAME)
       /\ kagree_algo_name_str(RetEntry.handshake_state.dh1) = ECDH_KAGREE_ALGO_NAME
  /\ (ret.op = "begin_handshake_reply" /\ ret.ok) =>
       /\ Unwrap(ret.msg).c_kagree_algo \in
            {Some(ECDH_KAGREE_ALGO_NAME), Some(DH_MODP_KAGREE_ALGO_NAME)}
       /\ Unwrap(ret.token).c_kagree_algo = Unwrap(ret.msg).c_kagree_algo
       /\ Some(kagree_algo_name_str(RetEntry.handshake_state.dh2))
            = Unwrap(ret.msg).c_kagree_algo
       /\ Unwrap(ret.token).dh2 = Some(public_key_bytes(RetEntry.handshake_state.dh2))
  /\ ret.err = "Unexpected c_kagree_algo in handshake request" =>
       /\ Unwrap(ret.msg).c_kagree_algo \notin
            {Some(ECDH_KAGREE_ALGO_NAME), Some(DH_MODP_KAGREE_ALGO_NAME)}
       /\ ret.token = None
  /\ (/\ ret.op = "process_handshake"
      /\ ret.before.tag = "PendingReplyMessage"
      /\ Unwrap(ret.msg).c_kagree_algo # Some(kagree_algo_name_str(ret.before.dh1))) =>
       /\ ~ret.ok
       /\ RetEntry.handshake_state.tag \notin CompletedTags

\* the responder has answered a request that proposes MODP-DH
C19_Witness ==
  /\ ret.op = "begin_handshake_reply"
  /\ ret.ok
  /\ Unwrap(ret.msg).c_kagree_algo = Some(DH_MODP_KAGREE_ALGO_NAME)
  /\ Unwrap(ret.token).c_kagree_algo = Some(DH_MODP_KAGREE_ALGO_NAME)

\* C20: get_shared_secret returns Ok exactly when the handle is known and the
\* stored handshake state is one of the two Completed states, and then with
\* the challenge1, challenge2 and shared_secret of that state; otherwise it
\* returns an error and no secret; the stored state is the state the call
\* found.
C20_SharedSecretOnlyWhenCompleted ==
  ret.op = "get_shared_secret" =>
    LET known == ret.identity_handle \in DOMAIN remote_participant_infos[ret.who]
    IN  /\ ret.ok <=> (known /\ RetEntry.handshake_state.tag \in CompletedTags)
        /\ ret.ok =>
             ret.secret = Some([challenge1 |-> RetEntry.handshake_state.challenge1,
                                challenge2 |-> RetEntry.handshake_state.challenge2,
                                shared_secret |-> RetEntry.handshake_state.shared_secret])
        /\ ~ret.ok => (ret.secret = None /\ ret.token = None)
        /\ known => RetEntry.handshake_state = ret.before
        /\ (known /\ ~ret.ok) =>
             ret.before.tag \in {"PendingRequestSend", "PendingRequestMessage",
                                 "PendingReplyMessage", "PendingFinalMessage"}

\* the responder, whose handshake ended with the final message it received,
\* has been given the shared secret
C20_Witness ==
  /\ ret.op = "get_shared_secret"
  /\ ret.ok
  /\ ret.before.tag = "CompletedWithFinalMessageReceived"
  /\ IsSome(ret.secret)

\* what begin_handshake_request and begin_handshake_reply require of the
\* state they are called in: the local handle is the local identity handle,
\* the remote handle is known, and the stored state is the expected one
BeginHandshakeAdmissible(r, expected) ==
  LET a == Unwrap(r.args)
      local_handle == IF r.op = "begin_handshake_request"
                      THEN a.initiator_identity_handle ELSE a.replier_identity_handle
      remote_handle == IF r.op = "begin_handshake_request"
                       THEN a.replier_identity_handle ELSE a.initiator_identity_handle
  IN  /\ local_participant_info[r.who] # None
      /\ local_handle = Unwrap(local_participant_info[r.who]).identity_handle
      /\ remote_handle \in DOMAIN remote_participant_infos[r.who]
      /\ remote_participant_infos[r.who][remote_handle].handshake_state = expected

C21_Step ==
  /\ (Idle /\ ret'.op = "begin_handshake_request") =>
       /\ ret'.ok <=> BeginHandshakeAdmissible(ret', PendingRequestSend)
       /\ ~ret'.ok => UNCHANGED <<remote_participant_infos,
                                  handshake_to_identity_handle_map,
                                  next_handshake_handle>>
  /\ (Idle /\ ret'.op = "begin_handshake_reply") =>
       /\ ret'.ok => BeginHandshakeAdmissible(ret', PendingRequestMessage)
       /\ ~ret'.ok => UNCHANGED <<remote_participant_infos,
                                  handshake_to_identity_handle_map,
                                  next_handshake_handle>>

\* C21: a call of begin_handshake_request returns Ok exactly when the local
\* handle it is given is the local identity handle and the stored state of
\* the remote participant is PendingRequestSend; a call of
\* begin_handshake_reply returns Ok only when the local handle is the local
\* identity handle and the stored state is PendingRequestMessage; a call of
\* either that returns an error leaves every stored handshake state, the
\* handshake-to-identity map and the handshake handle counter as they were.
C21_BeginHandshakeGuards == [][C21_Step]_vars

\* the responder has refused a request it could answer, because it has
\* answered one already and waits for the final message
C21_Witness ==
  /\ ret.op = "begin_handshake_reply"
  /\ ~ret.ok
  /\ ret.before.tag = "PendingFinalMessage"
  /\ RetEntry.handshake_state = ret.before
  /\ begin_handshake_reply_error(Unwrap(local_participant_info[ret.who]),
                                 Unwrap(ret.msg)) = ""

\* the errors of the checks begin_handshake_reply makes on the request
RequestCheckErrors ==
  {"extract_request", "Certificate::from_pem", "verify_signed_by_certificate",
   "Failed to deserialize SpdpDiscoveredParticipantData from remote",
   "Remote GUID does not comply with the spec",
   "Unexpected c_kagree_algo in handshake request",
   "begin_handshake_reply: hash_c1 mismatch"}

C22_Step ==
  (Idle /\ ret'.op = "begin_handshake_reply" /\ ret'.err \in RequestCheckErrors) =>
    LET p == ret'.who
        h == ret'.identity_handle
    IN  /\ ~ret'.ok
        /\ ret'.token = None
        /\ remote_participant_infos[p][h].handshake_state = PendingRequestMessage
        /\ remote_participant_infos'[p][h].handshake_state = PendingRequestMessage
        /\ remote_participant_infos'[p][h].identity_certificate_opt = None
        /\ remote_participant_infos'[p][h].signed_permissions_xml_opt = None
        /\ UNCHANGED <<remote_participant_infos, handshake_to_identity_handle_map,
                       next_handshake_handle, net>>
        /\ BeginHandshakeAdmissible(ret', PendingRequestMessage)

\* C22: when begin_handshake_reply fails at a check on the request
\* (certificate not signed by the CA, GUID not derived from the certificate,
\* participant data not deserializable, unknown key agreement algorithm,
\* hash(C1) mismatch), the stored state of the peer stays
\* PendingRequestMessage, no certificate and no permissions document are
\* stored, no handshake handle is allocated and no token is sent; what
\* begin_handshake_reply requires to process a request still holds.
C22_FailedReplyLeavesState == [][C22_Step]_vars

\* the responder has refused a request whose certificate is of another CA,
\* and still waits for a request
C22_Witness ==
  /\ ret.op = "begin_handshake_reply"
  /\ ret.err = "verify_signed_by_certificate"
  /\ RetEntry.handshake_state = PendingRequestMessage
  /\ RetEntry.identity_certificate_opt = None
  /\ next_handshake_handle[ret.who] = 0

\* hash(C1) as the properties of a request give it
RecomputedHashC1(request) ==
  hash_c(Unwrap(request.c_id), Unwrap(request.c_perm), Unwrap(request.c_pdata),
         Unwrap(request.c_dsign_algo), Unwrap(request.c_kagree_algo))

\* C23: a request whose hash_c1 differs from the hash recomputed from its
\* c.id, c.perm, c.pdata, c.dsign_algo and c.kagree_algo is answered with an
\* error and no token and does not move the responder to PendingFinalMessage;
\* when begin_handshake_reply succeeds, the reply and the stored state carry
\* the recomputed hash, and a hash_c1 the request carried is that hash.
C23_HashC1Recomputed ==
  /\ (/\ ret.op = "begin_handshake_reply"
      /\ ret.before = PendingRequestMessage
      /\ extract_request(Unwrap(ret.msg))
      /\ IsSome(Unwrap(ret.msg).hash_c1)
      /\ Unwrap(Unwrap(ret.msg).hash_c1) # RecomputedHashC1(Unwrap(ret.msg)))
     => /\ ~ret.ok
        /\ ret.token = None
        /\ RetEntry.handshake_state = PendingRequestMessage
  /\ (ret.op = "begin_handshake_reply" /\ ret.ok)
     => /\ Unwrap(ret.token).hash_c1 = Some(RecomputedHashC1(Unwrap(ret.msg)))
        /\ RetEntry.handshake_state.tag = "PendingFinalMessage"
        /\ RetEntry.handshake_state.hash_c1 = RecomputedHashC1(Unwrap(ret.msg))
        /\ Unwrap(ret.msg).hash_c1 \in {None, Some(RecomputedHashC1(Unwrap(ret.msg)))}

\* the responder has refused a request whose permissions document was
\* replaced in flight: every other check passes, the hash does not fit
C23_Witness ==
  /\ ret.op = "begin_handshake_reply"
  /\ ret.err = "begin_handshake_reply: hash_c1 mismatch"
  /\ Unwrap(ret.msg).c_perm = Some("forged")
  /\ RetEntry.handshake_state = PendingRequestMessage

\* the reply does not echo what the initiator keeps since the request
ReplyEchoMismatch(state, reply) ==
  \/ reply.challenge1 # Some(state.challenge1)
  \/ reply.hash_c1 \notin {None, Some(state.hash_c1)}

\* C24: process_handshake takes the initiator from PendingReplyMessage to
\* CompletedWithFinalMessageSent only on a reply whose challenge1 is the
\* challenge1 stored by begin_handshake_request and whose hash_c1, when
\* present, is the stored hash_c1; on a reply that differs in one of them it
\* returns an error and no final token, and the stored state gives no shared
\* secret; the challenge1 of a CompletedWithFinalMessageSent state is a nonce
\* the initiator drew itself.
C24_ReplyEchoesChallenge1 ==
  /\ (ret.op = "process_handshake" /\ ret.before.tag = "PendingReplyMessage") =>
       /\ ret.ok =>
            /\ extract_reply(Unwrap(ret.msg))
            /\ ~ReplyEchoMismatch(ret.before, Unwrap(ret.msg))
            /\ RetEntry.handshake_state.tag = "CompletedWithFinalMessageSent"
            /\ RetEntry.handshake_state.challenge1 = ret.before.challenge1
       /\ ReplyEchoMismatch(ret.before, Unwrap(ret.msg)) =>
            /\ ~ret.ok
            /\ ret.token = None
            /\ RetEntry.handshake_state.tag # "CompletedWithFinalMessageSent"
            /\ get_shared_secret_result(RetEntry.handshake_state) = None
  /\ \A p \in Participants: \A h \in RemoteHandles(p):
       HandshakeStateOf(p, h).tag = "CompletedWithFinalMessageSent" =>
         HandshakeStateOf(p, h).challenge1[1] = p

\* the initiator has refused a reply the responder signed for a request whose
\* challenge1 was replaced in flight: only the challenge keeps it out
C24_Witness ==
  /\ ret.op = "process_handshake"
  /\ ret.before.tag = "PendingReplyMessage"
  /\ ret.err = "Challenge 1 mismatch on authentication reply"
  /\ Unwrap(ret.msg).challenge1 = Some(ForgedChallenge)
  /\ Unwrap(Unwrap(ret.msg).signature).signer = Unwrap(Unwrap(ret.msg).c_id).key
  /\ Unwrap(ret.msg).hash_c1 = Some(ret.before.hash_c1)

\* the final message echoes what the responder keeps since its reply, and
\* its signature is one of the key of the certificate kept, over the values
\* kept
FinalMatchesStored(state, final_token) ==
  /\ final_token.challenge1 = Some(state.challenge1)
  /\ final_token.challenge2 = Some(state.challenge2)
  /\ final_token.dh1 = Some(state.dh1_public)
  /\ final_token.dh2 = Some(public_key_bytes(state.dh2))
  /\ final_token.hash_c1 \in {None, Some(state.hash_c1)}
  /\ final_token.hash_c2 \in {None, Some(state.hash_c2)}
  /\ IsSome(final_token.signature)
  /\ Unwrap(final_token.signature).signer = state.remote_id_certificate.key
  /\ Unwrap(final_token.signature).data =
       <<<<"hash_c1", state.hash_c1>>, <<"challenge1", state.challenge1>>,
         <<"dh1", state.dh1_public>>, <<"challenge2", state.challenge2>>,
         <<"dh2", public_key_bytes(state.dh2)>>, <<"hash_c2", state.hash_c2>>>>

\* C25: process_handshake takes the responder from PendingFinalMessage to
\* CompletedWithFinalMessageReceived only on a final message whose
\* challenge1, challenge2, dh1 and dh2 are the values stored, whose hash_c1
\* and hash_c2, when present, are the hashes stored, and whose signature is
\* made with the key of the certificate accepted with the request, over
\* (hash_c1, challenge1, dh1, challenge2, dh2, hash_c2); on any other message
\* it returns an error and no token, and the stored state gives no shared
\* secret.
C25_FinalMatchesStored ==
  (ret.op = "process_handshake" /\ ret.before.tag = "PendingFinalMessage") =>
    /\ ret.ok =>
         /\ FinalMatchesStored(ret.before, Unwrap(ret.msg))
         /\ RetEntry.identity_certificate_opt = Some(ret.before.remote_id_certificate)
         /\ RetEntry.handshake_state.tag = "CompletedWithFinalMessageReceived"
         /\ RetEntry.handshake_state.challenge1 = ret.before.challenge1
         /\ RetEntry.handshake_state.challenge2 = ret.before.challenge2
    /\ ~FinalMatchesStored(ret.before, Unwrap(ret.msg)) =>
         /\ ~ret.ok
         /\ ret.token = None
         /\ get_shared_secret_result(RetEntry.handshake_state) = None

\* the responder has refused a final message that echoes every value and
\* carries a signature of another key
C25_Witness ==
  /\ ret.op = "process_handshake"
  /\ ret.before.tag = "PendingFinalMessage"
  /\ ret.err = "Signature verification failed in process_handshake"
  /\ Unwrap(ret.msg).challenge2 = Some(ret.before.challenge2)
  /\ Unwrap(Unwrap(ret.msg).signature).signer = "kM"
  /\ get_shared_secret_result(RetEntry.handshake_state) = None

\* C26: a process_handshake for a handshake handle whose stored state is
\* CompletedWithFinalMessageSent or CompletedWithFinalMessageReceived returns
\* an error and leaves that state in place, so that get_shared_secret gives
\* the same secret after the call as before it.
C26_CompletedStateKept ==
  (/\ ret.op = "process_handshake"
   /\ ret.identity_handle # 0
   /\ ret.before.tag \in CompletedTags)
  => /\ ~ret.ok
     /\ RetEntry.handshake_state = ret.before
     /\ get_shared_secret_result(RetEntry.handshake_state)
          = get_shared_secret_result(ret.before)

\* validate_remote_identity is given the local GUID prefix, a handle that is
\* not the local identity handle, or a token of another class
RemoteIdentityRefused(p, args) ==
  LET local_info == Unwrap(local_participant_info[p])
  IN  \/ args.remote_participant_guidp = local_info.guid.prefix
      \/ args.local_identity_handle # local_info.identity_handle
      \/ args.class_id # IDENTITY_TOKEN_CLASS_ID

C27_Step ==
  (/\ Idle
   /\ ret'.op = "validate_remote_identity"
   /\ local_participant_info[ret'.who] # None) =>
    /\ ret'.ok <=> ~RemoteIdentityRefused(ret'.who, Unwrap(ret'.args))
    /\ ~ret'.ok =>
         /\ ret'.identity_handle = 0
         /\ UNCHANGED <<local_participant_info, remote_participant_infos,
                        handshake_to_identity_handle_map, next_identity_handle,
                        next_handshake_handle, net>>
    /\ ret'.ok =>
         /\ next_identity_handle'[ret'.who] = next_identity_handle[ret'.who] + 1
         /\ DOMAIN remote_participant_infos'[ret'.who] =
              DOMAIN remote_participant_infos[ret'.who] \cup {ret'.identity_handle}

\* C27: validate_remote_identity returns an error, consumes no identity
\* handle, inserts no entry for a remote participant and changes nothing else
\* when the remote GUID prefix is the local one, when the local handle it is
\* given is not the local identity handle, or when the class id of the remote
\* identity token is not the builtin one; in every other case it returns Ok
\* with a new identity handle and a new entry.
C27_RemoteIdentityRefused == [][C27_Step]_vars

\* validate_remote_identity has refused the participant's own GUID prefix,
\* given with the right handle and the right class id
C27_Witness ==
  /\ ret.op = "validate_remote_identity"
  /\ ~ret.ok
  /\ ret.err = "Remote GUID is equal to the local GUID"
  /\ Unwrap(ret.args).remote_participant_guidp
       = Unwrap(local_participant_info[ret.who]).guid.prefix
  /\ Unwrap(ret.args).class_id = IDENTITY_TOKEN_CLASS_ID
  /\ DOMAIN remote_participant_infos[ret.who]
       = {Unwrap(local_participant_info[ret.who]).identity_handle}

\* C28: while the network has modified no token, a responder's entry is
\* CompletedWithFinalMessageReceived only if the initiator's entry of the
\* same run is CompletedWithFinalMessageSent, and an initiator's entry is
\* PendingReplyMessage or CompletedWithFinalMessageSent only if the request
\* of that run has been sent.
C28_ResponderCompletesLast ==
  tampered = 0 =>
    \A p \in Participants:
      /\ \A hr \in RemoteHandles(p):
           HandshakeStateOf(p, hr).tag = "CompletedWithFinalMessageReceived" =>
             \E hi \in RemoteHandles(Other(p)):
               /\ HandshakeStateOf(Other(p), hi).tag = "CompletedWithFinalMessageSent"
               /\ HandshakeStateOf(Other(p), hi).session = HandshakeStateOf(p, hr).session
      /\ \A hi \in RemoteHandles(p):
           HandshakeStateOf(p, hi).tag \in
             {"PendingReplyMessage", "CompletedWithFinalMessageSent"} =>
             \E t \in net:
               /\ t.class_id = HANDSHAKE_REQUEST_CLASS_ID
               /\ t.session = HandshakeStateOf(p, hi).session

\* C29: when the initiator's entry and the responder's entry of one
\* handshake run are both Completed, they hold the same challenge1 and the
\* same challenge2; challenge1 is the nonce the initiator drew in the
\* begin_handshake_request of the run, challenge2 a nonce the responder drew.
C29_SameChallenges ==
  \A p \in Participants:
    \A hi \in RemoteHandles(p), hr \in RemoteHandles(Other(p)):
      LET si == HandshakeStateOf(p, hi)
          sr == HandshakeStateOf(Other(p), hr)
      IN  (/\ si.tag = "CompletedWithFinalMessageSent"
           /\ sr.tag = "CompletedWithFinalMessageReceived"
           /\ si.session = sr.session)
          => /\ si.challenge1 = sr.challenge1
             /\ si.challenge2 = sr.challenge2
             /\ si.challenge1 = generate_random_32_bytes(p, si.session[2])
             /\ \E n \in HandshakeHandles:
                  sr.challenge2 = generate_random_32_bytes(Other(p), n)

\* the responder has just completed the run the initiator completed before,
\* and both hold the two nonces
C29_Witness ==
  /\ ret.op = "process_handshake" /\ ret.ok
  /\ ret.before.tag = "PendingFinalMessage"
  /\ \E hi \in RemoteHandles(Other(ret.who)):
       LET si == HandshakeStateOf(Other(ret.who), hi)
       IN  /\ si.tag = "CompletedWithFinalMessageSent"
           /\ si.session = RetEntry.handshake_state.session
           /\ si.challenge1 = RetEntry.handshake_state.challenge1
           /\ si.challenge2 = RetEntry.handshake_state.challenge2
           /\ si.challenge1 # si.challenge2

(***************************************************************************)
(* Properties of the status stream                                         *)
(***************************************************************************)
\* C11: poll_next on a non-empty channel returns Ready(Some) with the oldest
\* item and removes it; on an empty channel with a sender alive it stores the
\* caller's waker and returns Pending; it returns Ready(None) exactly when
\* the channel is empty and no sender is alive.
C11_PollNext ==
  ch_ret.op = "poll_next" =>
    /\ ch_ret.queue_before # <<>> =>
          /\ ch_ret.result = "Ready(Some)"
          /\ ch_ret.item = Head(ch_ret.queue_before)
          /\ ch_queue = Tail(ch_ret.queue_before)
    /\ (ch_ret.queue_before = <<>> /\ ch_senders > 0) =>
          /\ ch_ret.result = "Pending"
          /\ ch_waker = ch_ret.cx_waker
          /\ ch_queue = <<>>
    /\ ch_ret.result = "Ready(None)" <=>
          (ch_senders = 0 /\ ch_ret.queue_before = <<>>)

\* poll_next has returned the end of the stream after items were sent
C11_Witness ==
  /\ ch_ret.op = "poll_next"
  /\ ch_ret.result = "Ready(None)"
  /\ ch_sent > 0
  /\ ch_terminated

\* C12: the items received, followed by the items still queued, are in the
\* order of the try_send calls with no item twice, and an item that was
\* passed over (a later item is received or queued, it is not) was sent while
\* the channel was full.
C12_ReceivedInOrder ==
  LET delivered == ch_received \o ch_queue
  IN  /\ \A i, j \in DOMAIN delivered: i < j => delivered[i] < delivered[j]
      /\ \A i \in DOMAIN delivered: delivered[i] \in 1..ch_sent
      /\ \A i \in DOMAIN delivered: \A t \in 1..(delivered[i] - 1):
            (\A j \in DOMAIN delivered: delivered[j] # t) => t \in ch_full
      /\ \A t \in ch_full: \A i \in DOMAIN delivered: delivered[i] # t

\* three items were received around one that was sent while the channel was
\* full
C12_Witness ==
  /\ Len(ch_received) >= 3
  /\ \E t \in ch_full: ch_received[1] < t /\ t < ch_received[Len(ch_received)]

\* C13: try_send called when the receiver has been dropped returns Ok(()).
C13_SendWithoutReceiverIsOk ==
  (ch_ret.op = "try_send" /\ ~ch_ret.receiver_before) => ch_ret.result = "Ok(())"

\* C14 as stated: the drop of a stream empties the queue, and a stream made
\* afterwards does not receive an item that was queued at the drop.
C14_DropDiscardsQueued ==
  /\ ch_ret.op = "drop_stream" => ch_queue = <<>>
  /\ (ch_ret.op = "poll_next" /\ ch_ret.result = "Ready(Some)") =>
       ch_ret.item \notin ch_at_drop

\* C14: the drop of a stream changes nothing in the channel: the items
\* queued stay queued and the stored waker stays stored, so that each item
\* queued at the drop is later still queued or has been received.
C14_DropKeepsQueued ==
  /\ ch_ret.op = "drop_stream" =>
       /\ ch_queue = ch_ret.queue_before
       /\ ch_waker = ch_ret.waker_before
       /\ ch_receiver = ch_ret.receiver_before
  /\ ch_receiver =>
       \A t \in ch_at_drop:
         \/ \E i \in DOMAIN ch_queue: ch_queue[i] = t
         \/ \E i \in DOMAIN ch_received: ch_received[i] = t

\* a stream made after the drop of another has received an item that was
\* queued at the drop
C14_Witness ==
  /\ ch_ret.op = "poll_next"
  /\ ch_ret.result = "Ready(Some)"
  /\ ch_ret.item \in ch_at_drop

(***************************************************************************)
(* Properties of the configuration URIs                                    *)
(***************************************************************************)
\* the text before the first ':' of the uri is one of the three schemes
UriHasKnownScheme ==
  /\ IsSome(split_once(u_uri))
  /\ Unwrap(split_once(u_uri))[1] \in {"file", "data", "pkcs11"}

\* C15: read_uri and read_uri_to_private_key return Ok for a uri of scheme
\* file, data or pkcs11 whose file can be read and whose key can be loaded,
\* and return ConfigError::Parse for every other uri.
C15_ThreeSchemesAccepted ==
  u_ret.op # "" =>
    /\ (UriHasKnownScheme /\ u_file_ok /\ u_key_ok) => u_ret.ok
    /\ ~UriHasKnownScheme => (~u_ret.ok /\ u_ret.err = "Parse")

(***************************************************************************)
(* Properties of the GAP submessage                                        *)
(***************************************************************************)
\* C16: a Gap written and read in one endianness is read as the Gap written,
\* and the Gap read is written as the bytes it was read from; the entity ids
\* are written alike in both endiannesses, a sequence number as its high 32
\* bits then its low 32 bits; the Gap of the serialization test is written
\* as the bytes the test lists.
C16_GapRoundTrip ==
  /\ IsSome(gp_decoded) => gp_decoded = Some(Some(gp_gap))
  /\ IsSome(gp_reencoded) => gp_reencoded = gp_bytes
  /\ IsSome(gp_bytes) =>
       LET bytes == Unwrap(gp_bytes)
       IN  /\ SubSeq(bytes, 1, 8) = SubSeq(gap_write(gp_gap, "le"), 1, 8)
           /\ SubSeq(bytes, 1, 8) = SubSeq(gap_write(gp_gap, "be"), 1, 8)
           /\ read_i32(SubSeq(bytes, 9, 12), gp_endian) = gp_gap.gap_start.high
           /\ read_u32(SubSeq(bytes, 13, 16), gp_endian) = gp_gap.gap_start.low
           /\ Len(bytes) = 28 + 4 * Len(gp_gap.gap_list.bitmap)
           /\ gp_gap = TestGap =>
                 bytes = IF gp_endian = "le" THEN TestGapLe ELSE TestGapBe

\* a Gap with a bitmap of two words and a sequence number with both halves
\* set went through the round trip in big-endian
C16_Witness ==
  /\ IsSome(gp_reencoded)
  /\ gp_endian = "be"
  /\ Len(gp_gap.gap_list.bitmap) = 2
  /\ gp_gap.gap_start = SequenceNumber(1, 16909060)
  /\ gp_gap.reader_id # gp_gap.writer_id

(***************************************************************************)
(* Properties of the no_key DataReader                                     *)
(***************************************************************************)
\* the reader held an unread data sample when the last call was made
UnreadDataBefore ==
  \E i \in DOMAIN dr_ret.cache_before:
    /\ dr_ret.cache_before[i].kind = "Value"
    /\ ~dr_ret.cache_before[i].read

\* C17: take_next_sample and read_next_sample return Ok(None) only when the
\* reader holds no unread data sample.
C17_NoneOnlyWhenNoUnreadData ==
  (dr_ret.op \in {"take_next_sample", "read_next_sample"} /\ dr_ret.result = <<>>)
    => ~UnreadDataBefore

\* the data samples of the cache the condition selects
DataSelected(cache, read_condition) ==
  {cache[i].id : i \in {j \in DOMAIN cache:
                          cache[j].kind = "Value" /\ matches(cache[j], read_condition)}}

SeqRange(seq) == {seq[i] : i \in DOMAIN seq}

\* C18: into_iterator and into_conditional_iterator make the iterator of
\* every data sample the condition selects and take these samples out of the
\* reader at the call: no sample an iterator was made of is in the reader,
\* nor in the result of a later read or take, whatever was consumed of the
\* iterator.
C18_IteratorSamplesRemoved ==
  /\ dr_ret.op \in {"into_iterator", "into_conditional_iterator"} =>
       /\ SeqRange(dr_ret.result) = DataSelected(dr_ret.cache_before, dr_ret.read_condition)
       /\ SeqRange(dr_ret.result) \cap SeqRange(Ids(dr_cache)) = {}
  /\ dr_provided \cap SeqRange(Ids(dr_cache)) = {}
  /\ dr_ret.op \in {"read", "take", "read_next_sample", "take_next_sample"} =>
       dr_provided \cap SeqRange(dr_ret.result) = {}
  /\ IsSome(dr_iter) => SeqRange(Unwrap(dr_iter)) \subseteq dr_provided

\* an iterator of two samples has been consumed in part, and a take made
\* afterwards returned a sample received since
C18_Witness ==
  /\ dr_ret.op = "take"
  /\ dr_ret.result # <<>>
  /\ IsSome(dr_iter)
  /\ Len(Unwrap(dr_iter)) = 1
  /\ Cardinality(dr_provided) = 2

(***************************************************************************)
(* Self-consistency of the GUID derivation                                 *)
(***************************************************************************)
\* C30: the adjusted GUID validate_local_identity computes from a certificate
\* passes validate_remote_guid against that certificate, and a GUID that
\* differs from it in a bit of the first 6 bytes of the prefix fails it.
C30_GuidSelfConsistent ==
  (IsSome(g_adjusted) /\ IsSome(g_remote)) =>
    LET derived == Unwrap(g_adjusted)
        remote_guid == Unwrap(g_remote)
    IN  /\ remote_guid = derived => g_check = Some(TRUE)
        /\ (\E i \in 1..6: remote_guid.prefix[i] # derived.prefix[i])
             => g_check = Some(FALSE)
        /\ \A i \in 1..6, b \in 0..7:
             remote_guid = FlipBit(derived, i, b) => g_check = Some(FALSE)

\* validate_remote_guid has refused the adjusted GUID with the lowest bit of
\* byte 6 inverted
C30_Witness ==
  /\ IsSome(g_adjusted)
  /\ g_remote = Some(FlipBit(Unwrap(g_adjusted), 6, 0))
  /\ g_check = Some(FALSE)
  /\ validate_remote_guid(Unwrap(g_adjusted), g_cert)

(***************************************************************************)
(* Properties of the waker mutex.                                          *)
(***************************************************************************)
\* C31: no wakeup is lost.  In every interleaving of the lines of poll_next
\* and of try_send, once no try_send is between its send and its return, no
\* item is queued while the last poll_next returned Pending and the waker it
\* stored has not been woken.
C31_NoLostWakeup ==
  ~(/\ ch_queue # <<>>
    /\ wk_send.pc = "idle"
    /\ IsSome(wk_unwoken))

\* a try_send has queued an item and woken the waker the last poll_next
\* stored, and the next poll_next has taken the mutex
C31_Witness ==
  /\ ch_ret.op = "try_send"
  /\ ch_ret.result = "Ok(())"
  /\ ch_queue # <<>>
  /\ IsSome(ch_ret.waker_before)
  /\ Unwrap(ch_ret.waker_before) \in ch_woken
  /\ wk_unwoken = None
  /\ wk_send.pc = "idle"
  /\ wk_poll.pc = "locked"

\* C32: the end of the stream is eventually observed.  When the last
\* StatusChannelSender is dropped after a poll_next has returned Pending and
\* before the waker it stored has been woken, the waker is woken and a later
\* poll_next returns Ready(None).
C32_EndOfStreamObserved ==
  (ch_ret.op = "drop_sender" /\ ch_senders = 0 /\ wk_poll.pc = "idle" /\ IsSome(wk_unwoken))
    ~> (ch_ret.op = "poll_next" /\ ch_ret.result = "Ready(None)")

(***************************************************************************)
(* Shutdown of the status stream.                                          *)
(***************************************************************************)
\* the items try_send has put into the channel of a receiver that is alive
AcceptedItems == (1..ch_sent) \ ch_full

\* one step of the channel, seen from a StatusReceiverStream
C33_Step ==
  LET polled == ch_ret'.op = "poll_next"
  IN  /\ (polled /\ ch_queue # <<>>) =>
            /\ ch_ret'.result = "Ready(Some)"
            /\ ch_ret'.item = Head(ch_queue)
            /\ ch_queue' = Tail(ch_queue)
            /\ ~is_terminated(ch_terminated) => ~is_terminated(ch_terminated')
      /\ (polled /\ ch_ret'.result = "Ready(None)") =>
            /\ ch_senders = 0
            /\ ch_queue = <<>> /\ ch_queue' = <<>>
            /\ \A t \in AcceptedItems: \E i \in DOMAIN ch_received': ch_received'[i] = t
            /\ \A i, j \in DOMAIN ch_received': i < j => ch_received'[i] < ch_received'[j]
            /\ is_terminated(ch_terminated')
      /\ (~is_terminated(ch_terminated) /\ is_terminated(ch_terminated')) =>
            (polled /\ ch_ret'.result = "Ready(None)")
      /\ (ch_stream /\ ch_stream' /\ is_terminated(ch_terminated)) =>
            is_terminated(ch_terminated')

\* C33: no accepted item is lost at shutdown.  poll_next returns the oldest
\* queued item as long as one is queued, also when no sender is left, and
\* returns Ready(None) only when the queue is empty and every accepted item
\* has been received, in the order of the sends; is_terminated of a stream
\* becomes true in the poll_next that returns Ready(None), in no other step,
\* and stays true as long as the stream exists.
C33_NoItemLostAtShutdown == [][C33_Step]_vars

\* after the last sender was dropped poll_next has returned an item, another
\* item is still queued and the stream is not terminated
C33_Witness ==
  /\ ch_ret.op = "poll_next"
  /\ ch_ret.result = "Ready(Some)"
  /\ ch_senders = 0
  /\ ch_queue # <<>>
  /\ ch_stream
  /\ ~is_terminated(ch_terminated)

====
